---- MODULE Spec2Model ----
(***************************************************************************)
(* Model of pyner's document windowing and span-alignment engine           *)
(* (src/pyner/models/ner.py): the window slicer, the sentence window       *)
(* builder, the sample annotation builder, the prediction decoder and the  *)
(* five-state tag target of MarginalTagLoss.                               *)
(*                                                                         *)
(* Character offsets are 0-based and half open as in the source; TLA+      *)
(* sequences are 1-based, so Python's a[i] is a[i + 1] here and Python's   *)
(* a[i:j] is SubSeq(a, i + 1, j).                                          *)
(***************************************************************************)
EXTENDS Integers, Sequences, FiniteSets, TLC

VARIABLES
    \* ---- slice_tokenization_output, called on its own
    s_tokens, s_begin, s_end, s_insert_before, s_insert_after, s_result, s_pc,
    \* ---- NERPreprocessor.sentencize_and_tokenize
    self,                  \* the preprocessor's configuration and training flag
    text,                  \* doc["text"], one class per character
    full_doc_bert_tokens,  \* the subword stream of the whole document
    full_doc_words,        \* the word stream of the whole document
    sentences_bounds,      \* the work queue of candidate ranges
    begin,                 \* None or the begin of the window being built
    results,               \* the emitted samples
    bert_offset,           \* running count of emitted subword tokens
    warned,                \* a warnings.warn call was made
    raised,                \* None or the exception that ended the call
    pc,                    \* "loop" while the while-loop runs, then "return"
    \* ---- NERPreprocessor.forward and NERPreprocessor.decode
    doc,                   \* the document given to forward
    window,                \* one (sample, tokenized_sample) of the document
    prep,                  \* the samples returned by forward
    predictions,           \* the predicted entities of each sample
    docs,                  \* the records returned by decode
    group_by_document,     \* decode's argument
    f_warned,              \* forward recorded a warning
    f_raised,              \* None or the exception that ended forward
    f_pc,                  \* "forward", "decode", "done" or "raised"
    \* ---- MarginalTagLoss.forward
    batch,                 \* the fragment arrays of one sample of the batch
    tags,                  \* the tag target, tags[label][word]
    t_pc,                  \* "call" or "return"
    \* ---- the tokenization caches of one NERPreprocessor
    bert_tokenizer_cache,  \* dict: text -> subword stream
    regex_tokenizer_cache, \* dict: text -> word stream
    module,                \* the preprocessor: training flag, tokenizer, word_regex
    threads,               \* per thread: its position in a pass and its locals
    trained_texts,         \* history: texts passed in training mode since the
                           \* last empty_cache
    \* ---- InformationExtractor.preprocess and split_into_mini_batches_to_fit_memory
    extractor,             \* dynamic_preprocessing and self.preprocessor.training
    call,                  \* None or the frame of preprocess: its arguments and
                           \* locals, and (history) the flag at entry
    samples,               \* the samples given to the mini-batch splitter
    threshold,             \* max_memory / size_factor
    mini_batches,          \* the mini-batches yielded, as lists of sample indices
    e_pc                   \* position in preprocess or in the splitter

svars == <<s_tokens, s_begin, s_end, s_insert_before, s_insert_after, s_result, s_pc>>

wvars == <<self, text, full_doc_bert_tokens, full_doc_words, sentences_bounds,
           begin, results, bert_offset, warned, raised, pc>>

fvars == <<doc, window, prep, predictions, docs, group_by_document,
           f_warned, f_raised, f_pc>>

tvars == <<batch, tags, t_pc>>

cvars == <<bert_tokenizer_cache, regex_tokenizer_cache, module, threads,
           trained_texts>>

evars == <<extractor, call, samples, threshold, mini_batches, e_pc>>

vars == <<svars, wvars, fvars, tvars, cvars, evars>>

----------------------------------------------------------------------------
(* Bounds of the model *)

\* Length of the character axis on which token streams of the slicer are drawn.
MaxPos == 5

\* Number of characters of the enumerated documents.
TextLen == 5

\* Number of characters of the windows given to forward.
WindowLen == 2

\* Number of windows given to decode.
MaxWindows == 3

\* Number of words and of fragments of the samples given to MarginalTagLoss.
MaxTagWords == 3

MaxTagFragments == 2

MaxPredicted == 3

\* Number of threads that share one preprocessor.
NWorkers == 2

\* Documents per call of preprocess.
MaxDocs == 2

\* Samples per call of the mini-batch splitter.
MaxSamples == 3

----------------------------------------------------------------------------
(* Generic helpers *)

Min2(a, b) == IF a <= b THEN a ELSE b

Max2(a, b) == IF a >= b THEN a ELSE b

SetMin(S) == CHOOSE x \in S : \A y \in S : x <= y

SetMax(S) == CHOOSE x \in S : \A y \in S : x >= y

\* Python's a[i:j] for 0 <= i, j (empty when j <= i), clipped to the length.
PySlice(a, i, j) == SubSeq(a, i + 1, Min2(j, Len(a)))

\* An optional value (Python's None or a value) is <<>> or <<v>>.
None == <<>>

----------------------------------------------------------------------------
(* Token streams: parallel arrays begin[], end[], text[] *)

EmptyStream == [begin |-> <<>>, end |-> <<>>, text |-> <<>>]

\* A stream drawn over cells 1..n of the character axis: cell i is the
\* character [i-1, i). "B" starts a token, "I" continues it, "G" is in no token.
CellLabels(n) ==
    {lab \in [1..n -> {"B", "I", "G"}] :
        \A i \in 1..n : lab[i] = "I" => (i > 1 /\ lab[i - 1] \in {"B", "I"})}

Indices(n) == [i \in 1..n |-> i]

\* The cells of t whose label is in the set kinds, in increasing order.
CellsOf(t, kinds) ==
    LET Test(i) == t[i] \in kinds
    IN  SelectSeq(Indices(Len(t)), Test)

\* The exclusive character end of the token that starts in cell i.
RECURSIVE TokenEndOf(_, _)
TokenEndOf(lab, i) ==
    IF i = Len(lab) \/ lab[i + 1] # "I" THEN i ELSE TokenEndOf(lab, i + 1)

\* A sequence given as a function, as an explicit tuple.
AsTuple(f) == f \o <<>>

NthOf(S, k) == CHOOSE x \in S : Cardinality({y \in S : y < x}) = k - 1

\* The elements of seq at the positions where mask is TRUE, in order.
Compress(seq, mask) ==
    LET zipped == [i \in 1..Len(seq) |-> [v |-> seq[i], keep |-> mask[i]]]
        Kept(r) == r.keep
        sel == SelectSeq(zipped, Kept)
    IN  [i \in 1..Len(sel) |-> sel[i].v]

StreamOfLabels(lab) ==
    LET S == CellsOf(lab, {"B"})
    IN  [begin |-> [k \in 1..Len(S) |-> S[k] - 1],
         end   |-> [k \in 1..Len(S) |-> TokenEndOf(lab, S[k])],
         text  |-> [k \in 1..Len(S) |-> ToString(k)]]

----------------------------------------------------------------------------
(* bisect.bisect_left / bisect.bisect_right (binary search, as in CPython) *)

RECURSIVE BisectLeftLoop(_, _, _, _)
BisectLeftLoop(a, x, lo, hi) ==
    IF lo < hi
    THEN LET mid == (lo + hi) \div 2
         IN  IF a[mid + 1] < x
             THEN BisectLeftLoop(a, x, mid + 1, hi)
             ELSE BisectLeftLoop(a, x, lo, mid)
    ELSE lo

bisect_left(a, x) == BisectLeftLoop(a, x, 0, Len(a))

RECURSIVE BisectRightLoop(_, _, _, _)
BisectRightLoop(a, x, lo, hi) ==
    IF lo < hi
    THEN LET mid == (lo + hi) \div 2
         IN  IF x < a[mid + 1]
             THEN BisectRightLoop(a, x, lo, mid)
             ELSE BisectRightLoop(a, x, mid + 1, hi)
    ELSE lo

bisect_right(a, x) == BisectRightLoop(a, x, 0, Len(a))

----------------------------------------------------------------------------
(* slice_tokenization_output (ner.py:16-30) *)

begin_indice_mutant(tokens, b) == bisect_left(tokens.begin, b)

begin_indice(tokens, b) ==
    Min2(bisect_left(tokens.begin, b), bisect_right(tokens.end, b))

end_indice(tokens, e) ==
    Max2(bisect_left(tokens.begin, e), bisect_right(tokens.end, e))

slice_tokenization_output_mutant(tokens, b, e, insert_before, insert_after) ==
    LET bi  == begin_indice(tokens, b)
        ei  == end_indice(tokens, e)
        rel(seq) == [i \in 1..Len(seq) |-> seq[i] - b]
        pre == IF insert_before # None THEN <<b>> ELSE <<>>
        suf == IF insert_after # None THEN <<e>> ELSE <<>>
    IN  [begin |-> rel(pre \o PySlice(tokens.begin, bi, ei) \o suf),
         end   |-> rel(pre \o PySlice(tokens.end, bi, ei) \o suf),
         text  |-> insert_before \o PySlice(tokens.text, bi, ei) \o insert_after]

\* b, e are the source's parameters begin, end.
slice_tokenization_output(tokens, b, e, insert_before, insert_after) ==
    LET bi  == begin_indice(tokens, b)
        ei  == end_indice(tokens, e)
        pre == IF insert_before # None THEN <<b>> ELSE <<>>
        suf == IF insert_after # None THEN <<e>> ELSE <<>>
    IN  [begin |-> pre \o PySlice(tokens.begin, bi, ei) \o suf,
         end   |-> pre \o PySlice(tokens.end, bi, ei) \o suf,
         text  |-> insert_before \o PySlice(tokens.text, bi, ei) \o insert_after]

----------------------------------------------------------------------------
(* External collaborators of the window builder (pyner.data_utils)         *)

Overlaps(sb, se, tb, te) == Max2(sb, tb) < Min2(se, te)

\* split_spans: for each span the index range [first, last + 1) of the tokens it
\* overlaps, or (-1, -1) when it overlaps none. The token arrays are sorted, so
\* the tokens that can overlap the span are looked up by binary search.
OverlappedTokens(sb, se, token_begins, token_ends) ==
    {k \in (bisect_right(token_ends, sb) + 1)..bisect_left(token_begins, se) :
        Overlaps(sb, se, token_begins[k], token_ends[k])}

split_spans(span_begins, span_ends, token_begins, token_ends) ==
    LET hit(i) == OverlappedTokens(span_begins[i], span_ends[i], token_begins, token_ends)
        range(h) == IF h = {} THEN <<-1, -1>> ELSE <<SetMin(h) - 1, SetMax(h)>>
        ranges == AsTuple([i \in 1..Len(span_begins) |-> range(hit(i))])
    IN  [begin |-> AsTuple([i \in 1..Len(ranges) |-> ranges[i][1]]),
         end   |-> AsTuple([i \in 1..Len(ranges) |-> ranges[i][2]])]

\* Character classes of a document text: "N" is a whitespace character matched
\* by the sentence split regex, "B" starts a word, "I" continues it (each "B"
\* and "I" character is one subword token), "X" is a one-character word that
\* the subword tokenizer yields no token for.
IsSpace(c) == c = "N"

Texts(n) ==
    {t \in [1..n -> {"N", "B", "I", "X"}] :
        \A i \in 1..n : t[i] = "I" => (i > 1 /\ t[i - 1] \in {"B", "I"})}

\* huggingface_tokenize: one token per "B" or "I" character.
huggingface_tokenize(t) ==
    LET S == CellsOf(t, {"B", "I"})
    IN  [begin |-> [k \in 1..Len(S) |-> S[k] - 1],
         end   |-> [k \in 1..Len(S) |-> S[k]],
         text  |-> [k \in 1..Len(S) |-> ToString(k)]]

\* regex_tokenize: the words "B I*" and "X".
regex_tokenize(t) ==
    LET S == CellsOf(t, {"B", "X"})
    IN  [begin |-> [k \in 1..Len(S) |-> S[k] - 1],
         end   |-> [k \in 1..Len(S) |-> TokenEndOf(t, S[k])],
         text  |-> [k \in 1..Len(S) |-> ToString(k)]]

\* regex_sentencize: the ranges between the matches of the split regex (the
\* maximal runs of "N"), the leading and the trailing range included.
regex_sentencize(t) ==
    LET n == Len(t)
        IsMatchStart(i) == t[i] = "N" /\ (i = 1 \/ t[i - 1] # "N")
        IsMatchEnd(i) == t[i] = "N" /\ (i = n \/ t[i + 1] # "N")
        starts == SelectSeq(Indices(n), IsMatchStart)
        ends == SelectSeq(Indices(n), IsMatchEnd)
    IN  [k \in 1..Len(starts) + 1 |->
            <<IF k = 1 THEN 0 ELSE ends[k - 1],
              IF k = Len(starts) + 1 THEN n ELSE starts[k] - 1>>]

----------------------------------------------------------------------------
(* NERPreprocessor.sentencize_and_tokenize (ner.py:295-447): one action per *)
(* way through one iteration of the while-loop.                            *)

\* new_begin, end = sentences_bounds.pop(0); begin = new_begin if begin is None
new_begin == Head(sentences_bounds)[1]

end == Head(sentences_bounds)[2]

cur_begin == IF begin = None THEN new_begin ELSE begin[1]

sentence_text_mutant == PySlice(text, new_begin, end)

\* Line 356: text[begin:end].
sentence_text == PySlice(text, cur_begin, end)

\* repr of a str: the characters between quotes.
repr(s) == <<"'">> \o s \o <<"'">>

\* not sentence_text.strip()
sentence_text_is_blank == \A i \in (cur_begin + 1)..end : IsSpace(text[i])

bert_tokens ==
    slice_tokenization_output(full_doc_bert_tokens, cur_begin, end,
                              self.bos_token, self.eos_token)

n_bert_tokens == Len(bert_tokens.text)

wants_join_mutant(draw) ==
    n_bert_tokens < self.max_tokens /\ self.training /\ draw

\* The first operand of the "and" on lines 364-367; draw is the outcome of
\* random.random() < self.join_small_sentence_rate.
wants_join(draw) ==
    \/ n_bert_tokens < self.min_tokens
    \/ (n_bert_tokens < self.max_tokens /\ (~self.training \/ draw))

\* Line 368, evaluated only when the queue is not empty.
next_fits ==
    LET nxt == sentences_bounds[2]
    IN  n_bert_tokens
          + Len(slice_tokenization_output(full_doc_bert_tokens, nxt[1], nxt[2],
                                          None, None).text)
          + 2 < self.max_tokens

joins(draw) == wants_join(draw) /\ Len(sentences_bounds) > 1 /\ next_fits

\* Lines 371-379: the words of the range, those aligned to no subword dropped.
sliced_words == slice_tokenization_output(full_doc_words, cur_begin, end, None, None)

aligned_words ==
    LET w == sliced_words
        sp == split_spans(w.begin, w.end, bert_tokens.begin, bert_tokens.end)
        mask == AsTuple([i \in 1..Len(sp.begin) |-> sp.begin[i] # -1])
    IN  [begin |-> Compress(w.begin, mask),
         end |-> Compress(w.end, mask),
         text |-> Compress(w.text, mask),
         words_bert_begin |-> Compress(sp.begin, mask),
         words_bert_end |-> Compress(sp.end, mask)]

too_large_mutant == n_bert_tokens - 2 > self.max_tokens

\* Line 383.
too_large == n_bert_tokens > self.max_tokens

CeilDiv(a, b) == (a + b - 1) \div b

\* Lines 385-388.
stop_bert_token ==
    IF self.large_sentences = "equal-split"
    THEN Max2(n_bert_tokens \div CeilDiv(n_bert_tokens, self.max_tokens),
              self.min_tokens)
    ELSE self.max_tokens

\* Line 391: the values i of range(len(words_bert_end) - 1) that pass the test.
last_word_candidates(words_bert_end) ==
    LET stop == stop_bert_token
    IN  {i \in 0..(Len(words_bert_end) - 2) : words_bert_end[i + 2] >= stop}

Exception(type, arg) == <<[type |-> type, arg |-> arg]>>

\* while len(sentences_bounds) fails: return results
LoopExit ==
    /\ pc = "loop"
    /\ sentences_bounds = <<>>
    /\ pc' = "return"
    /\ UNCHANGED <<self, text, full_doc_bert_tokens, full_doc_words,
                   sentences_bounds, begin, results, bert_offset, warned, raised>>
    /\ UNCHANGED <<svars, fvars, tvars, cvars, evars>>

\* Lines 356-358: a blank range is skipped (begin is kept).
LoopSkipBlank ==
    /\ pc = "loop"
    /\ sentences_bounds # <<>>
    /\ sentence_text_is_blank
    /\ sentences_bounds' = Tail(sentences_bounds)
    /\ begin' = <<cur_begin>>
    /\ UNCHANGED <<self, text, full_doc_bert_tokens, full_doc_words,
                   results, bert_offset, warned, raised, pc>>
    /\ UNCHANGED <<svars, fvars, tvars, cvars, evars>>

\* Lines 364-369: the window is left open and will be extended by the next range.
LoopJoin ==
    /\ pc = "loop"
    /\ sentences_bounds # <<>>
    /\ ~sentence_text_is_blank
    /\ \E draw \in BOOLEAN : joins(draw)
    /\ sentences_bounds' = Tail(sentences_bounds)
    /\ begin' = <<cur_begin>>
    /\ UNCHANGED <<self, text, full_doc_bert_tokens, full_doc_words,
                   results, bert_offset, warned, raised, pc>>
    /\ UNCHANGED <<svars, fvars, tvars, cvars, evars>>

\* Lines 383-390 under large_sentences = "raise".
LoopRaiseLarge ==
    /\ pc = "loop"
    /\ sentences_bounds # <<>>
    /\ ~sentence_text_is_blank
    /\ \E draw \in BOOLEAN : ~joins(draw)
    /\ too_large
    /\ self.large_sentences = "raise"
    /\ warned' = TRUE
    /\ raised' = Exception("LargeSentenceException", repr(sentence_text))
    /\ pc' = "raised"
    /\ sentences_bounds' = Tail(sentences_bounds)
    /\ begin' = <<cur_begin>>
    /\ UNCHANGED <<self, text, full_doc_bert_tokens, full_doc_words,
                   results, bert_offset>>
    /\ UNCHANGED <<svars, fvars, tvars, cvars, evars>>

\* Lines 383-394: the range is cut in two ranges pushed on the front of the queue.
LoopSplit ==
    /\ pc = "loop"
    /\ sentences_bounds # <<>>
    /\ ~sentence_text_is_blank
    /\ \E draw \in BOOLEAN : ~joins(draw)
    /\ too_large
    /\ self.large_sentences # "raise"
    /\ LET words == aligned_words
           cand == last_word_candidates(words.words_bert_end)
       IN  /\ cand # {}
           /\ LET last_word == SetMin(cand)
              IN  sentences_bounds' =
                      << <<cur_begin, words.end[last_word + 1]>>,
                         <<words.begin[last_word + 2], end>> >>
                      \o Tail(sentences_bounds)
    /\ begin' = None
    /\ warned' = TRUE
    /\ UNCHANGED <<self, text, full_doc_bert_tokens, full_doc_words,
                   results, bert_offset, raised, pc>>
    /\ UNCHANGED <<svars, fvars, tvars, cvars, evars>>

\* Line 391 when no word passes the test: next() raises StopIteration.
LoopSplitFails ==
    /\ pc = "loop"
    /\ sentences_bounds # <<>>
    /\ ~sentence_text_is_blank
    /\ \E draw \in BOOLEAN : ~joins(draw)
    /\ too_large
    /\ self.large_sentences # "raise"
    /\ last_word_candidates(aligned_words.words_bert_end) = {}
    /\ warned' = TRUE
    /\ raised' = Exception("StopIteration", <<cur_begin, end>>)
    /\ pc' = "raised"
    /\ sentences_bounds' = Tail(sentences_bounds)
    /\ begin' = <<cur_begin>>
    /\ UNCHANGED <<self, text, full_doc_bert_tokens, full_doc_words,
                   results, bert_offset>>
    /\ UNCHANGED <<svars, fvars, tvars, cvars, evars>>

\* The sample appended in split mode (lines 407-431). begin and end are the
\* range given to slice_document.
split_sample(words) ==
    [begin |-> cur_begin,
     end |-> end,
     words_bert_begin |-> words.words_bert_begin,
     words_bert_end |-> words.words_bert_end,
     words_text |-> words.text,
     words_begin |-> [i \in 1..Len(words.begin) |-> words.begin[i] - cur_begin],
     words_end |-> [i \in 1..Len(words.end) |-> words.end[i] - cur_begin],
     bert_tokens_text |-> <<bert_tokens.text>>,
     bert_tokens_begin |-> <<bert_tokens.begin>>,
     bert_tokens_end |-> <<bert_tokens.end>>]

\* The single sample of running mode (lines 335-348): the document itself.
running_sample_init(t) ==
    [begin |-> 0,
     end |-> Len(t),
     words_bert_begin |-> <<>>,
     words_bert_end |-> <<>>,
     words_text |-> <<>>,
     words_begin |-> <<>>,
     words_end |-> <<>>,
     bert_tokens_text |-> <<>>,
     bert_tokens_begin |-> <<>>,
     bert_tokens_end |-> <<>>]

\* results[0] after lines 403-404 and 433-445.
running_sample(old, words) ==
    [begin |-> old.begin,
     end |-> old.end,
     words_bert_begin |-> old.words_bert_begin \o
         [i \in 1..Len(words.begin) |-> words.words_bert_begin[i] + bert_offset],
     words_bert_end |-> old.words_bert_end \o
         [i \in 1..Len(words.begin) |-> words.words_bert_end[i] + bert_offset],
     words_text |-> old.words_text \o words.text,
     words_begin |-> old.words_begin \o words.begin,
     words_end |-> old.words_end \o words.end,
     bert_tokens_text |-> Append(old.bert_tokens_text, bert_tokens.text),
     bert_tokens_begin |-> Append(old.bert_tokens_begin, bert_tokens.begin),
     bert_tokens_end |-> Append(old.bert_tokens_end, bert_tokens.end)]

\* Lines 397-446: the window is emitted.
LoopEmit ==
    /\ pc = "loop"
    /\ sentences_bounds # <<>>
    /\ ~sentence_text_is_blank
    /\ \E draw \in BOOLEAN : ~joins(draw)
    /\ ~too_large
    /\ results' = IF self.split_into_multiple_samples
                  THEN Append(results, split_sample(aligned_words))
                  ELSE <<running_sample(results[1], aligned_words)>>
    /\ bert_offset' = bert_offset + n_bert_tokens
    /\ sentences_bounds' = Tail(sentences_bounds)
    /\ begin' = None
    /\ UNCHANGED <<self, text, full_doc_bert_tokens, full_doc_words,
                   warned, raised, pc>>
    /\ UNCHANGED <<svars, fvars, tvars, cvars, evars>>

----------------------------------------------------------------------------
(* Python values of the annotation builder                                 *)

\* A label is a string or a list: PyStr("A"), PyList(<<PyStr("A"), ...>>).
PyStr(str) == [is_list |-> FALSE, str |-> str, items |-> <<>>]

PyList(items) == [is_list |-> TRUE, str |-> "", items |-> items]

\* The strings of the model in Python's string order.
StringOrder == <<"A", "B", "main">>

StringRank(str) == CHOOSE k \in 1..Len(StringOrder) : StringOrder[k] = str

\* a < b for two string labels (the labels that reach the sort of line 210).
LabelLess(a, b) == StringRank(a.str) < StringRank(b.str)

\* Vocabulary.values of "entity_label"; "fragment_label" is the same object
\* when fragment_label_is_entity_label is set (lines 134-135).
EntityLabelValues ==
    IF self.convert_attributes_to_labels
    THEN <<"A", "B", "k:v", "k:w">>
    ELSE <<"A", "B">>

FragmentLabelValues ==
    IF self.fragment_label_is_entity_label
    THEN EntityLabelValues
    ELSE <<"A", "B", "main">>

\* Vocabulary.get of a string label: its index in values.
VocabularyGet(values, label) ==
    (CHOOSE k \in 1..Len(values) : values[k] = label.str) - 1

\* list_factorize(entities_fragments, fragments_id)[0]: each id replaced by its
\* index in fragments_id, the ids that are not in it left out.
IndexIn(ids, id) == (CHOOSE k \in 1..Len(ids) : ids[k] = id) - 1

list_factorize(entities_fragments, fragments_id) ==
    [e \in 1..Len(entities_fragments) |->
        LET known(id) == \E k \in 1..Len(fragments_id) : fragments_id[k] = id
            kept == SelectSeq(entities_fragments[e], known)
        IN  [j \in 1..Len(kept) |-> IndexIn(fragments_id, kept[j])]]

\* slice_document(doc, begin, end, offset_spans=True) for the entities that lie
\* in [b, e): their fragments shifted by b, the sample's id and begin.
slice_document(d, b, e) ==
    [doc_id |-> Append(d.doc_id, ToString(b) \o "-" \o ToString(e)),
     begin |-> <<b>>,
     text |-> PySlice(d.text, b, e),
     entities |->
        [k \in 1..Len(d.entities) |->
            [d.entities[k] EXCEPT !.fragments =
                [j \in 1..Len(d.entities[k].fragments) |->
                    [d.entities[k].fragments[j] EXCEPT
                        !.begin = @ - b, !.end = @ - b]]]]]

----------------------------------------------------------------------------
(* NERPreprocessor.forward for one sample (ner.py:150-285), called with    *)
(* only_text = False on a sample that has entities; filter_entities is     *)
(* None. The conversions to numpy arrays of lines 228-230 and back to      *)
(* lists of line 235 keep the values.                                      *)

\* Body applied to the value of v, the value computed once.
Let(v, Body(_)) == CHOOSE r \in {Body(x) : x \in {v}} : TRUE

label_arity_error_mutant(entity) == self.multi_label # entity.label.is_list

\* Lines 182-183: the label of an entity is a list in single-label mode.
label_arity_error(entity) == ~self.multi_label /\ entity.label.is_list

\* Lines 179-181: entity_label, a scalar label wrapped in multi-label mode.
entity_label(entity) ==
    IF self.multi_label /\ ~entity.label.is_list
    THEN PyList(<<entity.label>>)
    ELSE entity.label

\* Line 188: "{}:{}".format(attribute["label"], attribute["value"]).
pseudo_label(attribute) == PyStr(attribute.label \o ":" \o attribute.value)

\* Line 186: entity_label = [entity_label], a list whose only item is the
\* list of the entity's labels.
wrapped_label(label) == PyList(<<label>>)

\* Lines 184-188: the label list with one pseudo-label per attribute; the
\* label is a list here, __init__ having forced multi_label (line 131).
converted_label(entity, label) ==
    IF self.convert_attributes_to_labels
    THEN PyList(wrapped_label(label).items
                \o [i \in 1..Len(entity.attributes) |->
                        pseudo_label(entity.attributes[i])])
    ELSE label

\* Lines 189-192: the entry of entities_label, a row of booleans over the
\* vocabulary for a list (label in entity_label compares a string of the
\* vocabulary with each item), the index of the label for a string.
entities_label_entry(label) ==
    IF label.is_list
    THEN [k \in 1..Len(EntityLabelValues) |->
             \E i \in 1..Len(label.items) :
                /\ ~label.items[i].is_list
                /\ label.items[i].str = EntityLabelValues[k]]
    ELSE VocabularyGet(EntityLabelValues, label)

\* Line 195.
fragment_key(entity, fragment) ==
    <<fragment.begin, fragment.end,
      IF fragment.label # None THEN fragment.label[1]
      ELSE IF self.fragment_label_is_entity_label /\ ~self.multi_label
           THEN entity.label
           ELSE PyStr("main")>>

\* Line 206 raises KeyError when the fragment has no "label".
fragment_label_missing(fragment) ==
    ~self.fragment_label_is_entity_label /\ fragment.label = None

\* Line 206.
stored_label(entity, fragment) ==
    IF ~self.fragment_label_is_entity_label THEN fragment.label[1] ELSE entity.label

EmptyArrays ==
    [fragments_dict |-> <<>>,
     fragments_begin |-> <<>>, fragments_end |-> <<>>, fragments_label |-> <<>>,
     fragments_id |-> <<>>, fragments_entities |-> <<>>,
     entities_label |-> <<>>, entities_fragments |-> <<>>,
     raised |-> None]

\* The positions of fragments_dict that hold key.
DictLookup(dict, key) == {k \in 1..Len(dict) : dict[k].key = key}

key_in_dict_mutant(dict, key) == FALSE

\* Line 196.
key_in_dict(dict, key) == DictLookup(dict, key) # {}

\* Lines 193-208 for one fragment; entity_idx is 0-based as in the source.
add_fragment(a, entity, fragment_idx) ==
    LET fragment == entity.fragments[fragment_idx + 1]
        entity_idx == Len(a.entities_label) - 1
        fragment_id == <<entity.entity_id, fragment_idx>>
        key == fragment_key(entity, fragment)
        last == Len(a.entities_fragments)
    IN  IF key_in_dict(a.fragments_dict, key)
        THEN LET hit == a.fragments_dict[SetMin(DictLookup(a.fragments_dict, key))]
             IN  [a EXCEPT
                    !.fragments_entities[hit.idx + 1] = Append(@, entity_idx),
                    !.entities_fragments[last] = Append(@, hit.fragment_id)]
        ELSE IF fragment_label_missing(fragment)
        THEN [a EXCEPT !.raised = Exception("KeyError", "label")]
        ELSE [a EXCEPT
                !.fragments_dict =
                    Append(@, [key |-> key, idx |-> Len(a.fragments_entities),
                               fragment_id |-> fragment_id]),
                !.entities_fragments[last] = Append(@, fragment_id),
                !.fragments_entities = Append(@, <<entity_idx>>),
                !.fragments_begin = Append(@, fragment.begin),
                !.fragments_end = Append(@, fragment.end),
                !.fragments_label = Append(@, stored_label(entity, fragment)),
                !.fragments_id = Append(@, fragment_id)]

RECURSIVE add_fragments(_, _, _)
add_fragments(a, entity, fragment_idx) ==
    IF a.raised # None \/ fragment_idx >= Len(entity.fragments) THEN a
    ELSE Let(add_fragment(a, entity, fragment_idx),
             LAMBDA nxt : add_fragments(nxt, entity, fragment_idx + 1))

\* Lines 176-192 for one entity; a list label is the arity error of line 183
\* in single-label mode.
add_entity(a, entity) ==
    IF label_arity_error(entity)
    THEN [a EXCEPT !.raised = Exception("Exception", entity.entity_id)]
    ELSE Let([a EXCEPT
                !.entities_fragments = Append(@, <<>>),
                !.entities_label =
                    Append(@, entities_label_entry(
                                  converted_label(entity, entity_label(entity))))],
             LAMBDA nxt : add_fragments(nxt, entity, 0))

RECURSIVE add_entities(_, _, _)
add_entities(a, entities, k) ==
    IF a.raised # None \/ k > Len(entities) THEN a
    ELSE Let(add_entity(a, entities[k]),
             LAMBDA nxt : add_entities(nxt, entities, k + 1))

\* The key of line 210 of fragment i is less than that of fragment j.
SortKeyLess(a, i, j) ==
    \/ LabelLess(a.fragments_label[i], a.fragments_label[j])
    \/ /\ a.fragments_label[i] = a.fragments_label[j]
       /\ \/ a.fragments_begin[i] < a.fragments_begin[j]
          \/ /\ a.fragments_begin[i] = a.fragments_begin[j]
             /\ a.fragments_end[i] < a.fragments_end[j]

\* Line 210: sorted(range(n), key=(label, begin, end)), a stable sort; the
\* result lists 1-based positions.
sorter(a) ==
    LET n == Len(a.fragments_begin)
        before(i) == {j \in 1..n : SortKeyLess(a, j, i)
                                    \/ (~SortKeyLess(a, i, j) /\ j < i)}
    IN  AsTuple([p \in 1..n |-> CHOOSE i \in 1..n : Cardinality(before(i)) = p - 1])

Permute(seq, order) == [p \in 1..Len(order) |-> seq[order[p]]]

\* Lines 210-215.
sort_fragments(a) ==
    Let(sorter(a), LAMBDA order :
        [a EXCEPT
            !.fragments_begin = Permute(@, order),
            !.fragments_end = Permute(@, order),
            !.fragments_label = Permute(@, order),
            !.fragments_id = Permute(@, order),
            !.fragments_entities = Permute(@, order)])

keeps_fragment_mutant(mapped_begin) == TRUE

\* Lines 226-230: the fragments kept under empty_entities = "drop".
keeps_fragment(mapped_begin) == mapped_begin # -1

raises_on_empty_mutant(policy) == FALSE

\* Line 220.
raises_on_empty(policy) == policy = "raise"

\* Lines 217-234: the fragment arrays over words, or the error of line 221.
\* a holds the sorted arrays; sp is the result of split_spans.
map_fragments(sample, a, sp) ==
    LET empties == {i \in 1..Len(sp.begin) : sp.begin[i] = -1}
        keep == AsTuple([i \in 1..Len(sp.begin) |-> keeps_fragment(sp.begin[i])])
    IN  IF empties = {}
        THEN [raised |-> None, warned |-> FALSE,
              fragments_id |-> a.fragments_id,
              fragments_label |-> a.fragments_label,
              fragments_entities |-> a.fragments_entities,
              fragments_begin |-> sp.begin,
              fragments_end |-> sp.end]
        ELSE IF raises_on_empty(self.empty_entities)
        THEN [raised |-> Exception("Exception",
                            <<sample.doc_id, a.fragments_id[SetMin(empties)]>>),
              warned |-> FALSE]
        ELSE [raised |-> None, warned |-> TRUE,
              fragments_id |-> Compress(a.fragments_id, keep),
              fragments_label |-> Compress(a.fragments_label, keep),
              fragments_entities |-> Compress(a.fragments_entities, keep),
              fragments_begin |-> Compress(sp.begin, keep),
              fragments_end |-> Compress(sp.end, keep)]

tagged_words_mutant(b, e) == (b + 1)..e

\* Line 242: range(begin, end + 1), as positions of the word axis.
tagged_words(b, e) == (b + 1)..(e + 1)

\* Lines 242-243 for one fragment: tags[entity_idx][i][fragment_label] = True.
set_tags(tags_, entity_idx, b, e, fragment_label) ==
    LET row == tags_[entity_idx + 1]
    IN  [tags_ EXCEPT ![entity_idx + 1] =
            AsTuple([w \in 1..Len(row) |->
                        IF w \in tagged_words(b, e)
                        THEN [row[w] EXCEPT ![fragment_label + 1] = TRUE]
                        ELSE row[w]])]

\* The loops of lines 237-238 from fragment j of entity e on (1-based); the
\* list of an entity is never longer than entity["fragments"], so zip stops
\* at its end.
RECURSIVE tags_loop(_, _, _, _, _, _, _)
tags_loop(tags_, entities_fragments, fb, fe, fl, e, j) ==
    IF e > Len(entities_fragments) THEN tags_
    ELSE IF j > Len(entities_fragments[e])
    THEN tags_loop(tags_, entities_fragments, fb, fe, fl, e + 1, 1)
    ELSE Let(set_tags(tags_, e - 1, fb[entities_fragments[e][j] + 1],
                      fe[entities_fragments[e][j] + 1],
                      fl[entities_fragments[e][j] + 1]),
             LAMBDA nxt : tags_loop(nxt, entities_fragments, fb, fe, fl, e, j + 1))

\* Lines 167-172 and 237-243: tags[entity][word][label], all 0-based in the
\* source; fb, fe and fl are fragments_begin, fragments_end and fragments_label.
token_tags(n_entities, n_words, n_labels, entities_fragments, fb, fe, fl) ==
    tags_loop(AsTuple([e \in 1..Max2(1, n_entities) |->
                AsTuple([w \in 1..n_words |-> AsTuple([l \in 1..n_labels |-> FALSE])])]),
              entities_fragments, fb, fe, fl, 1, 1)

\* Lines 232-285: the sample, from the entity arrays a and the fragment
\* arrays m that map_fragments returned.
emit_sample(sample, words_begin, words_end, a, m) ==
    Let([entities_fragments |-> list_factorize(a.entities_fragments, m.fragments_id),
         \* line 233: end now means the index of the last word
         fragments_end |-> [i \in 1..Len(m.fragments_end) |-> m.fragments_end[i] - 1],
         fragments_label |->
            [i \in 1..Len(m.fragments_label) |->
                VocabularyGet(FragmentLabelValues, m.fragments_label[i])]],
        LAMBDA r :
            LET no_entities == Len(a.entities_label) = 0
                no_fragments == Len(r.fragments_label) = 0
            IN  [words_begin |-> words_begin,
                 words_end |-> words_end,
                 entities_token_tags |->
                    token_tags(Len(a.entities_label), Len(words_begin),
                               Len(FragmentLabelValues), r.entities_fragments,
                               m.fragments_begin, r.fragments_end, r.fragments_label),
                 entities_label |->
                    IF ~no_entities THEN a.entities_label
                    ELSE IF self.multi_label
                    THEN <<[k \in 1..Len(EntityLabelValues) |-> FALSE]>>
                    ELSE <<0>>,
                 entities_fragments |-> IF no_entities THEN << <<>> >>
                                        ELSE r.entities_fragments,
                 entities_mask |-> IF no_entities THEN <<FALSE>>
                                   ELSE [e \in 1..Len(r.entities_fragments) |-> TRUE],
                 fragments_begin |-> IF no_fragments THEN <<0>> ELSE m.fragments_begin,
                 fragments_end |-> IF no_fragments THEN <<0>> ELSE r.fragments_end,
                 fragments_label |-> IF no_fragments THEN <<0>> ELSE r.fragments_label,
                 fragments_entities |-> IF no_fragments THEN << <<>> >>
                                        ELSE m.fragments_entities,
                 fragments_mask |-> IF no_fragments THEN <<FALSE>>
                                    ELSE [i \in 1..Len(r.fragments_label) |-> TRUE],
                 doc_id |-> sample.doc_id,
                 original_sample |-> sample,
                 original_doc |-> None])

Outcome(raised_, warned_, samples_) ==
    [raised |-> raised_, warned |-> warned_, results |-> samples_]

\* forward for one sample and its words: the exception raised, or the sample.
forward_sample(sample, words_begin, words_end) ==
    Let(add_entities(EmptyArrays, sample.entities, 1), LAMBDA a0 :
        IF a0.raised # None THEN Outcome(a0.raised, FALSE, <<>>)
        ELSE Let(sort_fragments(a0), LAMBDA a1 :
             Let(split_spans(a1.fragments_begin, a1.fragments_end,
                             words_begin, words_end), LAMBDA sp :
             Let(map_fragments(sample, a1, sp), LAMBDA m :
                IF m.raised # None THEN Outcome(m.raised, FALSE, <<>>)
                ELSE Outcome(None, m.warned,
                             <<emit_sample(sample, words_begin, words_end, a1, m)>>)))))

\* forward(doc) for the samples of the document: results, or the exception.
RECURSIVE forward_loop(_, _, _, _)
forward_loop(d, windows, k, out) ==
    IF k > Len(windows) THEN out
    ELSE Let(forward_sample(windows[k].sample, windows[k].words_begin,
                            windows[k].words_end), LAMBDA one :
            IF one.raised # None THEN one
            ELSE Let(Outcome(None, out.warned \/ one.warned,
                             Append(out.results,
                                    [one.results[1] EXCEPT !.original_doc = d])),
                     LAMBDA nxt : forward_loop(d, windows, k + 1, nxt)))

----------------------------------------------------------------------------
(* NERPreprocessor.decode (ner.py:469-513)                                 *)

\* doc_id.rsplit("/", 1)[0] of an id given as its "/"-separated components.
rsplit_head(doc_id) ==
    IF Len(doc_id) > 1 THEN SubSeq(doc_id, 1, Len(doc_id) - 1) ELSE doc_id

char_offset_mutant(doc_prep, by_document) == 0

\* Lines 477 and 486.
char_offset(doc_prep, by_document) ==
    IF by_document /\ doc_prep.original_sample.begin # None
    THEN doc_prep.original_sample.begin[1]
    ELSE 0

decode_text_mutant(doc_prep, by_document) == doc_prep.original_sample.text

\* Lines 476 and 487.
decode_text(doc_prep, by_document) ==
    IF by_document THEN doc_prep.original_doc.text ELSE doc_prep.original_sample.text

\* Lines 494-511 (convert_attributes_to_labels off: no attributes).
res_entity(doc_prep, entity, by_document) ==
    LET offset == char_offset(doc_prep, by_document)
        txt == decode_text(doc_prep, by_document)
    IN  [label |-> <<EntityLabelValues[entity.label + 1]>>,
         attributes |-> <<>>,
         fragments |->
            [j \in 1..Len(entity.fragments) |->
                LET f == entity.fragments[j]
                    b == offset + doc_prep.words_begin[f.begin + 1]
                    e == offset + doc_prep.words_end[f.end + 1]
                IN  [begin |-> b, end |-> e,
                     label |-> FragmentLabelValues[f.label + 1],
                     text |-> PySlice(txt, b, e)]],
         confidence |-> entity.confidence]

append_entities_mutant(entities, found) ==
    entities
    \o SelectSeq(found, LAMBDA r : \A i \in 1..Len(entities) :
                                      entities[i].fragments # r.fragments)

\* Lines 493 and 512: each res_entity is appended to the last record.
append_entities(entities, found) == entities \o found

\* Line 478.
opens_record(doc_id, last_doc_id) == doc_id # last_doc_id

\* One iteration of the loop of line 473; acc holds docs and last_doc_id.
decode_step(acc, doc_prep, doc_predictions, by_document) ==
    LET doc_id == rsplit_head(doc_prep.doc_id)
        txt == decode_text(doc_prep, by_document)
        opened ==
            IF by_document
            THEN IF opens_record(doc_id, acc.last_doc_id)
                 THEN Append(acc.docs, [doc_id |-> doc_id, text |-> txt, entities |-> <<>>])
                 ELSE acc.docs
            ELSE Append(acc.docs, [doc_id |-> doc_prep.doc_id, text |-> txt,
                                   entities |-> <<>>])
        found == [j \in 1..Len(doc_predictions) |->
                     res_entity(doc_prep, doc_predictions[j], by_document)]
    IN  [docs |-> Let(opened, LAMBDA o :
                        [o EXCEPT ![Len(o)].entities = append_entities(@, found)]),
         last_doc_id |-> IF by_document THEN doc_id ELSE acc.last_doc_id]

RECURSIVE decode_loop(_, _, _, _, _)
decode_loop(acc, preds, preps, by_document, k) ==
    IF k > Min2(Len(preps), Len(preds)) THEN acc.docs
    ELSE Let(decode_step(acc, preps[k], preds[k], by_document),
             LAMBDA nxt : decode_loop(nxt, preds, preps, by_document, k + 1))

decode(preds, preps, by_document) ==
    decode_loop([docs |-> <<>>, last_doc_id |-> None], preds, preps, by_document, 1)

\* The prediction that repeats a sample's own annotation: its entities, each
\* with its fragments as word ranges and label indices.
own_prediction(sample) ==
    IF ~sample.entities_mask[1] THEN <<>>
    ELSE [e \in 1..Len(sample.entities_label) |->
            [label |-> sample.entities_label[e],
             fragments |->
                [j \in 1..Len(sample.entities_fragments[e]) |->
                    LET k == sample.entities_fragments[e][j] + 1
                    IN  [begin |-> sample.fragments_begin[k],
                         end |-> sample.fragments_end[k],
                         label |-> sample.fragments_label[k]]],
             confidence |-> e]]

----------------------------------------------------------------------------
(* forward then decode on one document                                     *)

ForwardReturn ==
    /\ f_pc = "forward"
    /\ \E out \in {forward_loop(doc, window, 1, Outcome(None, FALSE, <<>>))} :
          /\ out.raised = None
          /\ prep' = out.results
          /\ f_warned' = out.warned
          /\ predictions' = [k \in 1..Len(out.results) |-> own_prediction(out.results[k])]
    /\ f_pc' = "decode"
    /\ UNCHANGED <<doc, window, docs, group_by_document, f_raised>>
    /\ UNCHANGED <<svars, wvars, tvars, cvars, evars>>

ForwardRaise ==
    /\ f_pc = "forward"
    /\ \E out \in {forward_loop(doc, window, 1, Outcome(None, FALSE, <<>>))} :
          /\ out.raised # None
          /\ f_raised' = out.raised
    /\ f_pc' = "raised"
    /\ UNCHANGED <<doc, window, prep, predictions, docs, group_by_document, f_warned>>
    /\ UNCHANGED <<svars, wvars, tvars, cvars, evars>>

Decode ==
    /\ f_pc = "decode"
    /\ docs' = decode(predictions, prep, group_by_document)
    /\ f_pc' = "done"
    /\ UNCHANGED <<doc, window, prep, predictions, group_by_document, f_warned, f_raised>>
    /\ UNCHANGED <<svars, wvars, tvars, cvars, evars>>

----------------------------------------------------------------------------
(* The tokenization caches (ner.py:136-137, 288-326): the passes of         *)
(* sentencize_and_tokenize of the threads that share one preprocessor, one *)
(* action per step of lines 296-326, and the calls of train and            *)
(* empty_cache.                                                            *)

\* A dict is a function on its keys.
EmptyDict == [key \in {} |-> None]

\* key in dict
dict_has(dict, key) == key \in DOMAIN dict

\* dict[key] = value
dict_set(dict, key, value) ==
    [k \in (DOMAIN dict) \cup {key} |-> IF k = key THEN value ELSE dict[k]]

\* A thread that is in no pass.
IdleThread ==
    [pc |-> "idle", text |-> <<>>,
     full_doc_bert_tokens |-> None, full_doc_words |-> None]

\* Lines 299 and 313: the tokenization is computed.
cache_miss(cache, key) == ~module.training \/ ~dict_has(cache, key)

writes_cache_mutant == TRUE

\* Lines 306 and 319.
writes_cache == module.training

\* Lines 295-296: a thread enters sentencize_and_tokenize with a document.
Call(t) ==
    /\ \E w \in DOMAIN threads :
          /\ threads[w].pc = "idle"
          /\ threads' = [threads EXCEPT
                            ![w] = [IdleThread EXCEPT !.pc = "bert_lookup", !.text = t]]
    /\ trained_texts' = IF module.training THEN trained_texts \cup {t}
                        ELSE trained_texts
    /\ UNCHANGED <<bert_tokenizer_cache, regex_tokenizer_cache, module>>
    /\ UNCHANGED <<svars, wvars, fvars, tvars, evars>>

\* Lines 298-299 and 308-311.
BertLookup ==
    /\ \E w \in DOMAIN threads :
          /\ threads[w].pc = "bert_lookup"
          /\ threads' = [threads EXCEPT ![w] =
                IF ~module.tokenizer
                THEN [@ EXCEPT !.pc = "regex_lookup"]
                ELSE IF cache_miss(bert_tokenizer_cache, @.text)
                THEN [@ EXCEPT !.pc = "bert_compute"]
                ELSE [@ EXCEPT !.pc = "regex_lookup",
                               !.full_doc_bert_tokens =
                                    <<bert_tokenizer_cache[threads[w].text]>>]]
    /\ UNCHANGED <<bert_tokenizer_cache, regex_tokenizer_cache, module, trained_texts>>
    /\ UNCHANGED <<svars, wvars, fvars, tvars, evars>>

\* Lines 300-305: huggingface_tokenize runs and returns.
BertCompute ==
    /\ \E w \in DOMAIN threads :
          /\ threads[w].pc = "bert_compute"
          /\ threads' = [threads EXCEPT ![w] =
                [@ EXCEPT !.pc = "bert_store",
                          !.full_doc_bert_tokens = <<huggingface_tokenize(threads[w].text)>>]]
    /\ UNCHANGED <<bert_tokenizer_cache, regex_tokenizer_cache, module, trained_texts>>
    /\ UNCHANGED <<svars, wvars, fvars, tvars, evars>>

\* Lines 306-307.
BertStore ==
    /\ \E w \in DOMAIN threads :
          /\ threads[w].pc = "bert_store"
          /\ bert_tokenizer_cache' =
                IF writes_cache
                THEN dict_set(bert_tokenizer_cache, threads[w].text,
                              threads[w].full_doc_bert_tokens[1])
                ELSE bert_tokenizer_cache
          /\ threads' = [threads EXCEPT ![w].pc = "regex_lookup"]
    /\ UNCHANGED <<regex_tokenizer_cache, module, trained_texts>>
    /\ UNCHANGED <<svars, wvars, fvars, tvars, evars>>

\* Lines 312-313 and 321-324.
RegexLookup ==
    /\ \E w \in DOMAIN threads :
          /\ threads[w].pc = "regex_lookup"
          /\ threads' = [threads EXCEPT ![w] =
                IF ~module.word_regex
                THEN [@ EXCEPT !.pc = "windows",
                               !.full_doc_words = threads[w].full_doc_bert_tokens]
                ELSE IF cache_miss(regex_tokenizer_cache, @.text)
                THEN [@ EXCEPT !.pc = "regex_compute"]
                ELSE [@ EXCEPT !.pc = "windows",
                               !.full_doc_words =
                                    <<regex_tokenizer_cache[threads[w].text]>>]]
    /\ UNCHANGED <<bert_tokenizer_cache, regex_tokenizer_cache, module, trained_texts>>
    /\ UNCHANGED <<svars, wvars, fvars, tvars, evars>>

\* Lines 314-318: regex_tokenize runs and returns.
RegexCompute ==
    /\ \E w \in DOMAIN threads :
          /\ threads[w].pc = "regex_compute"
          /\ threads' = [threads EXCEPT ![w] =
                [@ EXCEPT !.pc = "regex_store",
                          !.full_doc_words = <<regex_tokenize(threads[w].text)>>]]
    /\ UNCHANGED <<bert_tokenizer_cache, regex_tokenizer_cache, module, trained_texts>>
    /\ UNCHANGED <<svars, wvars, fvars, tvars, evars>>

\* Lines 319-320.
RegexStore ==
    /\ \E w \in DOMAIN threads :
          /\ threads[w].pc = "regex_store"
          /\ regex_tokenizer_cache' =
                IF writes_cache
                THEN dict_set(regex_tokenizer_cache, threads[w].text,
                              threads[w].full_doc_words[1])
                ELSE regex_tokenizer_cache
          /\ threads' = [threads EXCEPT ![w].pc = "windows"]
    /\ UNCHANGED <<bert_tokenizer_cache, module, trained_texts>>
    /\ UNCHANGED <<svars, wvars, fvars, tvars, evars>>

\* Lines 325-447: the windows are built from the two streams and the call
\* returns or raises; nothing there reads or writes the caches.
BuildWindows ==
    /\ \E w \in DOMAIN threads :
          /\ threads[w].pc = "windows"
          /\ threads' = [threads EXCEPT ![w] = IdleThread]
    /\ UNCHANGED <<bert_tokenizer_cache, regex_tokenizer_cache, module, trained_texts>>
    /\ UNCHANGED <<svars, wvars, fvars, tvars, evars>>

\* train(mode), lines 288-289, called by a thread that is in no pass.
Train(mode) ==
    /\ \E w \in DOMAIN threads : threads[w].pc = "idle"
    /\ module' = [module EXCEPT !.training = mode]
    /\ UNCHANGED <<bert_tokenizer_cache, regex_tokenizer_cache, threads, trained_texts>>
    /\ UNCHANGED <<svars, wvars, fvars, tvars, evars>>

\* empty_cache(), lines 291-293, called by a thread that is in no pass.
EmptyCache ==
    /\ \E w \in DOMAIN threads : threads[w].pc = "idle"
    /\ bert_tokenizer_cache' = EmptyDict
    /\ regex_tokenizer_cache' = EmptyDict
    /\ trained_texts' = {}
    /\ UNCHANGED <<module, threads>>
    /\ UNCHANGED <<svars, wvars, fvars, tvars, evars>>

----------------------------------------------------------------------------
(* InformationExtractor.preprocess (base.py:258-272). A document of data   *)
(* is one that the preprocessor yields samples for ("ok") or one for which *)
(* it raises: LargeSentenceException at ner.py:390 ("large") or the        *)
(* unmatched-fragment error of ner.py:221 ("unmatched").                   *)

raises(document) == document \in {"large", "unmatched"}

\* Line 265: the branch that returns the lazy chain.
is_dynamic == call.split = "train" /\ extractor.dynamic_preprocessing

\* preprocess(data, split) is entered.
Preprocess(data, split) ==
    /\ e_pc = "idle"
    /\ call' = [split |-> split, data |-> data, training |-> None,
                entry |-> extractor.training, results |-> <<>>, raised |-> None]
    /\ e_pc' = "preprocess"
    /\ UNCHANGED <<extractor, samples, threshold, mini_batches>>
    /\ UNCHANGED <<svars, wvars, fvars, tvars, cvars>>

\* Lines 265-267: the generator chain is returned, no document processed yet.
PreprocessDynamic ==
    /\ e_pc = "preprocess"
    /\ is_dynamic
    /\ e_pc' = "returned"
    /\ UNCHANGED <<extractor, call, samples, threshold, mini_batches>>
    /\ UNCHANGED <<svars, wvars, fvars, tvars, cvars>>

\* Lines 268-269: the flag is saved and eval() (train(False), ner.py:288-289)
\* clears it.
PreprocessEval ==
    /\ e_pc = "preprocess"
    /\ ~is_dynamic
    /\ call' = [call EXCEPT !.training = <<extractor.training>>]
    /\ extractor' = [extractor EXCEPT !.training = FALSE]
    /\ e_pc' = "list"
    /\ UNCHANGED <<samples, threshold, mini_batches>>
    /\ UNCHANGED <<svars, wvars, fvars, tvars, cvars>>

\* Line 270: list() draws the samples of the next document.
PreprocessDocument ==
    /\ e_pc = "list"
    /\ call.data # <<>>
    /\ ~raises(Head(call.data))
    /\ call' = [call EXCEPT !.data = Tail(@), !.results = Append(@, Head(call.data))]
    /\ UNCHANGED <<extractor, samples, threshold, mini_batches, e_pc>>
    /\ UNCHANGED <<svars, wvars, fvars, tvars, cvars>>

\* Line 270: the preprocessor raises on the next document; nothing catches
\* the exception, which leaves preprocess.
PreprocessRaise ==
    /\ e_pc = "list"
    /\ call.data # <<>>
    /\ raises(Head(call.data))
    /\ call' = [call EXCEPT !.raised = <<Head(call.data)>>]
    /\ e_pc' = "raised"
    /\ UNCHANGED <<extractor, samples, threshold, mini_batches>>
    /\ UNCHANGED <<svars, wvars, fvars, tvars, cvars>>

\* Lines 271-272: the flag is set back and the list returned.
PreprocessRestore ==
    /\ e_pc = "list"
    /\ call.data = <<>>
    /\ extractor' = [extractor EXCEPT !.training = call.training[1]]
    /\ e_pc' = "returned"
    /\ UNCHANGED <<call, samples, threshold, mini_batches>>
    /\ UNCHANGED <<svars, wvars, fvars, tvars, cvars>>

----------------------------------------------------------------------------
(* InformationExtractor.split_into_mini_batches_to_fit_memory              *)
(* (base.py:274-300). A sample is its tokens_mask, given by the lengths of *)
(* its rows; a mini-batch is the list of the indices (0-based) of its      *)
(* samples in the input list.                                              *)

\* Line 283: len(sample["tokens_mask"]).
n_sequences(sample) == Len(sample)

\* Line 283: max((len(x) for x in sample["tokens_mask"])).
max_sequence_size(sample) == SetMax({sample[i] : i \in 1..Len(sample)})

\* Lines 281-284: the indices of the samples sorted by n_sequences *
\* max_sequence_size, equal keys in the input order (sorted is stable).
samples_and_sizes(ss) ==
    LET n == Len(ss)
        key(i) == n_sequences(ss[i]) * max_sequence_size(ss[i])
        before(i) == {j \in 1..n : key(j) < key(i) \/ (key(j) = key(i) /\ j < i)}
    IN  AsTuple([p \in 1..n |-> CHOOSE i \in 1..n : Cardinality(before(i)) = p - 1])

\* Lines 289-297: one turn of the loop for the sample of index i.
batch_step(st, ss, i) ==
    LET size_so_far == Max2(st.max_sequence_size_so_far, max_sequence_size(ss[i]))
        n_so_far == st.n_sequences_so_far + n_sequences(ss[i])
    IN  IF n_so_far * size_so_far > threshold
        THEN [max_sequence_size_so_far |-> max_sequence_size(ss[i]),
              n_sequences_so_far |-> n_sequences(ss[i]),
              yielded |-> Append(st.yielded, st.batch),
              batch |-> <<i - 1>>]
        ELSE [max_sequence_size_so_far |-> size_so_far,
              n_sequences_so_far |-> n_so_far,
              yielded |-> st.yielded,
              batch |-> Append(st.batch, i - 1)]

RECURSIVE batch_loop(_, _, _, _)
batch_loop(st, ss, order, p) ==
    IF p > Len(order) THEN st
    ELSE Let(batch_step(st, ss, order[p]),
             LAMBDA nxt : batch_loop(nxt, ss, order, p + 1))

\* Lines 285-300 for a non-empty list: the counters start at 0, the batch
\* with the first sample of the sorted list, and the loop runs on the rest.
split_into_mini_batches_to_fit_memory(ss) ==
    Let(samples_and_sizes(ss), LAMBDA order :
        Let(batch_loop([max_sequence_size_so_far |-> 0,
                        n_sequences_so_far |-> 0,
                        yielded |-> <<>>,
                        batch |-> <<order[1] - 1>>],
                       ss, order, 2),
            LAMBDA st : IF Len(st.batch) > 0
                        THEN Append(st.yielded, st.batch)
                        ELSE st.yielded))

\* The generator is run to its end.
SplitIntoMiniBatches ==
    /\ e_pc = "split"
    /\ mini_batches' = split_into_mini_batches_to_fit_memory(samples)
    /\ e_pc' = "yielded"
    /\ UNCHANGED <<extractor, call, samples, threshold>>
    /\ UNCHANGED <<svars, wvars, fvars, tvars, cvars>>

----------------------------------------------------------------------------
(* MarginalTagLoss.forward: the tag target (ner.py:543-559)                *)

O == 0

I == 1

B == 2

L == 3

U == 4

\* torch.zeros(shape): planes[label][word], both 0-based in the source.
zeros(n_labels, n_words) == [l \in 1..n_labels |-> [w \in 1..n_words |-> O]]

bl_assign_mutant(row, b, e) ==
    [w \in 1..Len(row) |->
        IF w = e + 1 THEN Max2(row[w], L) ELSE IF w = b + 1 THEN Max2(row[w], B)
        ELSE row[w]]

\* Lines 555-556: bl_tags[.., b] = B, then bl_tags[.., e] = L.
bl_assign(row, b, e) ==
    [w \in 1..Len(row) |->
        IF w = e + 1 THEN L ELSE IF w = b + 1 THEN B ELSE row[w]]

\* Lines 553-558 for one unmasked fragment (b, e, l).
tag_fragment(p, b, e, l) ==
    IF b < e
    THEN [p EXCEPT
            !.i_tags[l + 1] =
                [w \in 1..Len(p.i_tags[l + 1]) |->
                    IF b + 1 <= w /\ w <= e + 1 THEN I ELSE p.i_tags[l + 1][w]],
            !.bl_tags[l + 1] = bl_assign(@, b, e)]
    ELSE [p EXCEPT !.u_tags[l + 1][b + 1] = U]

\* The loop of line 552 from fragment k on; the masked fragments are skipped.
RECURSIVE tag_loop(_, _, _)
tag_loop(p, bt, k) ==
    IF k > Len(bt.fragments_begin) THEN p
    ELSE IF ~bt.fragments_mask[k] THEN tag_loop(p, bt, k + 1)
    ELSE Let(tag_fragment(p, bt.fragments_begin[k], bt.fragments_end[k],
                          bt.fragments_label[k]),
             LAMBDA nxt : tag_loop(nxt, bt, k + 1))

\* Line 559.
tag_target(bt, n_labels, n_words) ==
    Let(tag_loop([i_tags |-> zeros(n_labels, n_words),
                  bl_tags |-> zeros(n_labels, n_words),
                  u_tags |-> zeros(n_labels, n_words)], bt, 1),
        LAMBDA p :
            [l \in 1..n_labels |->
                [w \in 1..n_words |->
                    Max2(Max2(p.i_tags[l][w], p.bl_tags[l][w]), p.u_tags[l][w])]])

----------------------------------------------------------------------------
(* Values of the variables of the operations a specification does not run *)

SIdle ==
    /\ s_tokens = EmptyStream
    /\ s_begin = 0
    /\ s_end = 0
    /\ s_insert_before = None
    /\ s_insert_after = None
    /\ s_result = EmptyStream
    /\ s_pc = "idle"

WRestIdle ==
    /\ text = <<>>
    /\ full_doc_bert_tokens = EmptyStream
    /\ full_doc_words = EmptyStream
    /\ sentences_bounds = <<>>
    /\ begin = None
    /\ results = <<>>
    /\ bert_offset = 0
    /\ warned = FALSE
    /\ raised = None
    /\ pc = "idle"

WIdle == self = [max_tokens |-> 0] /\ WRestIdle

FIdle ==
    /\ doc = None
    /\ window = <<>>
    /\ prep = <<>>
    /\ predictions = <<>>
    /\ docs = <<>>
    /\ group_by_document = TRUE
    /\ f_warned = FALSE
    /\ f_raised = None
    /\ f_pc = "idle"

TIdle ==
    /\ batch = None
    /\ tags = <<>>
    /\ t_pc = "idle"

CacheIdle ==
    /\ bert_tokenizer_cache = <<>>
    /\ regex_tokenizer_cache = <<>>
    /\ module = None
    /\ threads = <<>>
    /\ trained_texts = {}

PreprocessIdle ==
    /\ extractor = None
    /\ call = None

BatchesIdle ==
    /\ samples = <<>>
    /\ threshold = 0
    /\ mini_batches = <<>>

EIdle ==
    /\ PreprocessIdle
    /\ BatchesIdle
    /\ e_pc = "idle"

CIdle ==
    /\ CacheIdle
    /\ EIdle

----------------------------------------------------------------------------
(* Specification of the slicer called on its own: the inputs are every     *)
(* stream of non-empty, non-overlapping, sorted tokens over MaxPos         *)
(* characters, every range begin <= end and every choice of markers.       *)

\* Texts of the boundary markers (the tokenizer's cls/bos and sep/eos tokens).
CLS == "[CLS]"

SEP == "[SEP]"

SliceInit ==
    /\ \E lab \in CellLabels(MaxPos) : s_tokens = StreamOfLabels(lab)
    /\ s_begin \in 0..MaxPos
    /\ s_end \in s_begin..MaxPos
    /\ s_insert_before \in {None, <<CLS>>}
    /\ s_insert_after \in {None, <<SEP>>}
    /\ s_result = EmptyStream
    /\ s_pc = "call"
    /\ WIdle
    /\ FIdle
    /\ TIdle
    /\ CIdle

SliceCall ==
    /\ s_pc = "call"
    /\ s_result' = slice_tokenization_output(s_tokens, s_begin, s_end,
                                             s_insert_before, s_insert_after)
    /\ s_pc' = "return"
    /\ UNCHANGED <<s_tokens, s_begin, s_end, s_insert_before, s_insert_after>>
    /\ UNCHANGED <<wvars, fvars, tvars, cvars, evars>>

\* The result is sliced again, with the same range and markers.
SliceAgain ==
    /\ s_pc = "return"
    /\ s_tokens' = s_result
    /\ s_result' = slice_tokenization_output(s_result, s_begin, s_end,
                                             s_insert_before, s_insert_after)
    /\ s_pc' = "resliced"
    /\ UNCHANGED <<s_begin, s_end, s_insert_before, s_insert_after>>
    /\ UNCHANGED <<wvars, fvars, tvars, cvars, evars>>

SliceNext ==
    \/ SliceCall
    \/ SliceAgain

SpecSlice == SliceInit /\ [][SliceNext]_vars

----------------------------------------------------------------------------
(* Specification of sentencize_and_tokenize: one call on one document.     *)

\* The (max_tokens, min_tokens) pairs of the enumerated configurations; the
\* constructor asserts min_tokens <= max_tokens // 2 (line 121).
TokenBudgets == {<<4, 2>>, <<5, 2>>, <<7, 3>>}

Config(budget, large, training, split, markers) ==
    [max_tokens |-> budget[1],
     min_tokens |-> budget[2],
     large_sentences |-> large,
     training |-> training,
     split_into_multiple_samples |-> split,
     bos_token |-> IF markers THEN <<CLS>> ELSE None,
     eos_token |-> IF markers THEN <<SEP>> ELSE None]

Configs ==
    {Config(b, l, t, sp, m) :
        b \in TokenBudgets, l \in {"equal-split", "max-split", "raise"},
        t \in BOOLEAN, sp \in BOOLEAN, m \in BOOLEAN}

\* A text of n one-token words.
Sentence(n) == [i \in 1..n |-> "B"]

\* Scenario A: sentences of 50 and 60 subword tokens, min_tokens = 128,
\* max_tokens = 512, not training.
ScenarioAText == Sentence(50) \o <<"N">> \o Sentence(60)

ScenarioAConfigs ==
    {Config(<<512, 128>>, l, FALSE, sp, m) :
        l \in {"equal-split", "max-split", "raise"}, sp \in BOOLEAN, m \in BOOLEAN}

\* Scenario B: one sentence of 1000 subword tokens, max_tokens = 500,
\* min_tokens = 128, equal-split.
ScenarioBText == Sentence(1000)

ScenarioBConfigs ==
    {Config(<<500, 128>>, "equal-split", t, sp, m) :
        t \in BOOLEAN, sp \in BOOLEAN, m \in BOOLEAN}

\* The state at line 351, before the first iteration.
Start(t, config) ==
    /\ self = config
    /\ text = t
    /\ full_doc_bert_tokens = huggingface_tokenize(t)
    /\ full_doc_words = regex_tokenize(t)
    /\ sentences_bounds = regex_sentencize(t)
    /\ begin = None
    /\ results = IF config.split_into_multiple_samples
                 THEN <<>> ELSE <<running_sample_init(t)>>
    /\ bert_offset = 0
    /\ warned = FALSE
    /\ raised = None
    /\ pc = "loop"

Init ==
    /\ \/ \E t \in Texts(TextLen), config \in Configs : Start(t, config)
       \/ \E config \in ScenarioAConfigs : Start(ScenarioAText, config)
       \/ \E config \in ScenarioBConfigs : Start(ScenarioBText, config)
    /\ SIdle
    /\ FIdle
    /\ TIdle
    /\ CIdle

Next ==
    \/ LoopExit
    \/ LoopSkipBlank
    \/ LoopJoin
    \/ LoopRaiseLarge
    \/ LoopSplit
    \/ LoopSplitFails
    \/ LoopEmit

Spec == Init /\ [][Next]_vars

----------------------------------------------------------------------------
(* Specification of forward followed by decode: one document whose window  *)
(* is WindowLen characters long, in running mode (the sample is the        *)
(* document) or in split mode (the sample is the slice of the document     *)
(* that starts at character WindowLen).                                    *)

ForwardConfig(split, flie, policy) ==
    [split_into_multiple_samples |-> split,
     fragment_label_is_entity_label |-> flie,
     multi_label |-> FALSE,
     convert_attributes_to_labels |-> FALSE,
     empty_entities |-> policy]

\* Character spans begin <= end of a text of n characters, from offset.
Spans(offset, n) ==
    {sp \in (offset..(offset + n)) \X (offset..(offset + n)) : sp[1] <= sp[2]}

\* The "label" of a fragment: any or none when the fragment's label is the
\* entity's, required otherwise (line 206 reads it).
FragmentLabelOptions(flie) ==
    IF flie THEN {None, <<PyStr("A")>>} ELSE {<<PyStr("main")>>}

Fragments(offset, n, flie) ==
    {[begin |-> sp[1], end |-> sp[2], label |-> lab] :
        sp \in Spans(offset, n), lab \in FragmentLabelOptions(flie)}

EntityLabels == {PyStr("A"), PyStr("B")}

Entity(id, label, fragments) ==
    [entity_id |-> id, label |-> label, fragments |-> fragments]

\* The entity lists of the enumerated documents: none; one entity with one or
\* two fragments; two entities with one fragment each; an entity with two
\* fragments and an entity with a fragment equal to the second of them.
EntityLists(F) ==
    {<<>>}
    \cup {<<Entity("e1", l, <<f>>)>> : l \in EntityLabels, f \in F}
    \cup {<<Entity("e1", l, <<f, g>>)>> : l \in EntityLabels, f \in F, g \in F}
    \cup {<<Entity("e1", l, <<f>>), Entity("e2", m, <<g>>)>> :
            l \in EntityLabels, m \in EntityLabels, f \in F, g \in F}
    \cup {<<Entity("e1", l, <<f, g>>), Entity("e2", m, <<g>>)>> :
            l \in EntityLabels, m \in EntityLabels, f \in F, g \in F}

\* The characters of a text of n characters, named by their offsets.
Characters(n) == [i \in 1..n |-> i - 1]

Document(id, n, entities) ==
    [doc_id |-> id, begin |-> None, text |-> Characters(n), entities |-> entities]

\* The sample and words that sentencize_and_tokenize yields for the window
\* [b, b + Len(lab)) of document d, whose words are laid out by lab.
WindowOf(d, split, b, lab) ==
    LET words == StreamOfLabels(lab)
    IN  [sample |-> IF split THEN slice_document(d, b, b + Len(lab)) ELSE d,
         words_begin |-> words.begin,
         words_end |-> words.end]

ForwardStart(d, split, b, lab, config) ==
    /\ self = config
    /\ doc = d
    /\ window = <<WindowOf(d, split, b, lab)>>
    /\ prep = <<>>
    /\ predictions = <<>>
    /\ docs = <<>>
    /\ group_by_document = TRUE
    /\ f_warned = FALSE
    /\ f_raised = None
    /\ f_pc = "forward"

ForwardInit ==
    /\ \E split \in BOOLEAN, flie \in BOOLEAN, policy \in {"raise", "drop"},
          lab \in CellLabels(WindowLen) :
          LET b == IF split THEN WindowLen ELSE 0
          IN  \E entities \in EntityLists(Fragments(b, WindowLen, flie)) :
                ForwardStart(Document(<<"D1">>, b + WindowLen, entities),
                             split, b, lab, ForwardConfig(split, flie, policy))
    /\ WRestIdle
    /\ SIdle
    /\ TIdle
    /\ CIdle

ForwardNext ==
    \/ ForwardReturn
    \/ ForwardRaise
    \/ Decode

SpecForward == ForwardInit /\ [][ForwardNext]_vars

----------------------------------------------------------------------------
(* Specification of forward on entities with string and list labels, in    *)
(* single-label and in multi-label mode; every fragment has its own label. *)

LabelConfig(split, multi_label, policy) ==
    [ForwardConfig(split, FALSE, policy) EXCEPT !.multi_label = multi_label]

\* entity["label"]: a string, or a list of none, one or two strings.
ArityLabels ==
    EntityLabels
    \cup {PyList(<<>>), PyList(<<PyStr("B")>>), PyList(<<PyStr("A"), PyStr("B")>>)}

\* One entity, or two entities, with one fragment each.
LabelledEntityLists(F) ==
    {<<Entity("e1", l, <<f>>)>> : l \in ArityLabels, f \in F}
    \cup {<<Entity("e1", l, <<f>>), Entity("e2", m, <<g>>)>> :
            l \in ArityLabels, m \in ArityLabels, f \in F, g \in F}

LabelsInit ==
    /\ \E split \in BOOLEAN, multi_label \in BOOLEAN, policy \in {"raise", "drop"},
          lab \in CellLabels(WindowLen) :
          LET b == IF split THEN WindowLen ELSE 0
          IN  \E entities \in LabelledEntityLists(Fragments(b, WindowLen, FALSE)) :
                ForwardStart(Document(<<"D1">>, b + WindowLen, entities),
                             split, b, lab, LabelConfig(split, multi_label, policy))
    /\ WRestIdle
    /\ SIdle
    /\ TIdle
    /\ CIdle

LabelsNext ==
    \/ ForwardReturn
    \/ ForwardRaise

SpecLabels == LabelsInit /\ [][LabelsNext]_vars

----------------------------------------------------------------------------
(* Specification of the construction of a preprocessor followed by forward *)
(* on one entity that has attributes: convert_attributes_to_labels on or   *)
(* off, multi_label given as None, True or False.                          *)

\* The arguments of __init__, multi_label being None, <<TRUE>> or <<FALSE>>.
AttributeArguments(split, convert, multi_label, policy) ==
    [ForwardConfig(split, FALSE, policy) EXCEPT
        !.convert_attributes_to_labels = convert,
        !.multi_label = multi_label]

\* Lines 127-132: the exception raised, or self.multi_label as forward tests
\* it (None is false).
init_multi_label(convert, multi_label) ==
    IF convert /\ multi_label = <<FALSE>>
    THEN [raised |-> Exception("Exception",
                        "convert_attributes_to_labels requires multi_label = True"),
          multi_label |-> FALSE]
    ELSE [raised |-> None,
          multi_label |-> convert \/ multi_label = <<TRUE>>]

\* entity["attributes"]: none, one, or two attributes of the same label.
AttributeLists ==
    {<<>>,
     <<[label |-> "k", value |-> "v"]>>,
     <<[label |-> "k", value |-> "v"], [label |-> "k", value |-> "w"]>>}

AttributeLabels ==
    {PyStr("A"), PyList(<<PyStr("B")>>), PyList(<<PyStr("A"), PyStr("B")>>)}

\* One entity with one fragment and its attributes.
AttributeEntityLists(F) ==
    {<<Entity("e1", l, <<f>>) @@ [attributes |-> at]>> :
        l \in AttributeLabels, f \in F, at \in AttributeLists}

AttributesInit ==
    /\ \E split \in BOOLEAN, convert \in BOOLEAN,
          multi_label \in {None, <<TRUE>>, <<FALSE>>}, policy \in {"raise", "drop"},
          lab \in CellLabels(WindowLen) :
          LET b == IF split THEN WindowLen ELSE 0
          IN  \E entities \in AttributeEntityLists(Fragments(b, WindowLen, FALSE)) :
                /\ self = AttributeArguments(split, convert, multi_label, policy)
                /\ doc = Document(<<"D1">>, b + WindowLen, entities)
                /\ window = <<WindowOf(doc, split, b, lab)>>
    /\ prep = <<>>
    /\ predictions = <<>>
    /\ docs = <<>>
    /\ group_by_document = TRUE
    /\ f_warned = FALSE
    /\ f_raised = None
    /\ f_pc = "init"
    /\ WRestIdle
    /\ SIdle
    /\ TIdle
    /\ CIdle

\* NERPreprocessor.__init__, lines 127-132.
Construct ==
    /\ f_pc = "init"
    /\ \E out \in {init_multi_label(self.convert_attributes_to_labels,
                                     self.multi_label)} :
          /\ self' = [self EXCEPT !.multi_label = out.multi_label]
          /\ f_raised' = out.raised
          /\ f_pc' = IF out.raised # None THEN "raised" ELSE "forward"
    /\ UNCHANGED <<doc, window, prep, predictions, docs, group_by_document, f_warned>>
    /\ UNCHANGED <<text, full_doc_bert_tokens, full_doc_words, sentences_bounds,
                   begin, results, bert_offset, warned, raised, pc>>
    /\ UNCHANGED <<svars, tvars, cvars, evars>>

AttributesNext ==
    \/ Construct
    \/ ForwardReturn
    \/ ForwardRaise

SpecAttributes == AttributesInit /\ [][AttributesNext]_vars

----------------------------------------------------------------------------
(* Specification of decode called on its own: up to MaxWindows windows of   *)
(* documents without annotation, each with up to two predicted entities.    *)

DecodeDocIds == {<<"D1">>, <<"D2">>, <<"D1", "a">>}

\* The j-th predicted entity of window k: the first two have one fragment on
\* the first word; the others have that fragment and one on all the words.
Predicted(k, j) ==
    [label |-> 0,
     fragments |->
        IF j <= 2
        THEN <<[begin |-> 0, end |-> 0, label |-> 0]>>
        ELSE <<[begin |-> 0, end |-> 0, label |-> 0],
               [begin |-> 0, end |-> WindowLen - 1, label |-> 0]>>,
     confidence |-> <<k, j>>]

\* The sample forward returns for window k, a window of one-character words.
PrepOf(id, split, k) ==
    LET d == Document(id, WindowLen * MaxWindows, <<>>)
        w == WindowOf(d, split, WindowLen * (k - 1), Sentence(WindowLen))
    IN  forward_loop(d, <<w>>, 1, Outcome(None, FALSE, <<>>)).results[1]

WindowChoices(n) == [1..n -> DecodeDocIds \X (0..MaxPredicted)]

DecodeInit ==
    /\ \E split \in BOOLEAN, n \in 1..MaxWindows :
          /\ self = ForwardConfig(split, TRUE, "raise")
          /\ \E c \in WindowChoices(n) :
                /\ prep = [k \in 1..n |-> PrepOf(c[k][1], split, k)]
                /\ predictions =
                      [k \in 1..n |-> [j \in 1..c[k][2] |-> Predicted(k, j)]]
    /\ group_by_document \in BOOLEAN
    /\ doc = None
    /\ window = <<>>
    /\ docs = <<>>
    /\ f_warned = FALSE
    /\ f_raised = None
    /\ f_pc = "decode"
    /\ WRestIdle
    /\ SIdle
    /\ TIdle
    /\ CIdle

DecodeNext == Decode

SpecDecode == DecodeInit /\ [][DecodeNext]_vars

----------------------------------------------------------------------------
(* Specification of the tag target of MarginalTagLoss: one sample of       *)
(* MaxTagWords words, two labels, up to MaxTagFragments fragments in any    *)
(* order, each masked or not.                                              *)

TagLabels == {0, 1}

TagFragments ==
    {[begin |-> b, end |-> e, label |-> l, mask |-> m] :
        b \in 0..(MaxTagWords - 1), e \in 0..(MaxTagWords - 1),
        l \in TagLabels, m \in BOOLEAN}

Batch(fragments) ==
    [fragments_begin |-> [k \in 1..Len(fragments) |-> fragments[k].begin],
     fragments_end |-> [k \in 1..Len(fragments) |-> fragments[k].end],
     fragments_label |-> [k \in 1..Len(fragments) |-> fragments[k].label],
     fragments_mask |-> [k \in 1..Len(fragments) |-> fragments[k].mask]]

TagInit ==
    /\ \E n \in 1..MaxTagFragments :
          \E fragments \in [1..n -> {f \in TagFragments : f.begin <= f.end}] :
              batch = Batch(fragments)
    /\ tags = <<>>
    /\ t_pc = "call"
    /\ SIdle
    /\ WIdle
    /\ FIdle
    /\ CIdle

TagCall ==
    /\ t_pc = "call"
    /\ tags' = tag_target(batch, Cardinality(TagLabels), MaxTagWords)
    /\ t_pc' = "return"
    /\ UNCHANGED batch
    /\ UNCHANGED <<svars, wvars, fvars, cvars, evars>>

TagNext == TagCall

SpecTags == TagInit /\ [][TagNext]_vars

----------------------------------------------------------------------------
(* Specifications of the tokenization caches: one thread that makes passes *)
(* and calls train and empty_cache between them; NWorkers threads that     *)
(* make passes in training mode.                                           *)

\* The document texts of the passes.
CacheTexts == {<<"B">>, <<"B", "I">>, <<"B", "N", "B">>}

\* The preprocessor after construction: a torch module is in training mode;
\* tokenizer is "bert_name is not None", word_regex is "word_regex is not
\* None"; one of them at least is needed to tokenize.
Modules ==
    {m \in [training : {TRUE}, tokenizer : BOOLEAN, word_regex : BOOLEAN] :
        m.tokenizer \/ m.word_regex}

CacheStart(n) ==
    /\ bert_tokenizer_cache = EmptyDict
    /\ regex_tokenizer_cache = EmptyDict
    /\ module \in Modules
    /\ threads = [w \in 1..n |-> IdleThread]
    /\ trained_texts = {}
    /\ SIdle
    /\ WIdle
    /\ FIdle
    /\ TIdle
    /\ EIdle

CacheInit == CacheStart(1)

CacheNext ==
    \/ \E t \in CacheTexts : Call(t)
    \/ BertLookup
    \/ BertCompute
    \/ BertStore
    \/ RegexLookup
    \/ RegexCompute
    \/ RegexStore
    \/ BuildWindows
    \/ \E mode \in BOOLEAN : Train(mode)
    \/ EmptyCache

SpecCache == CacheInit /\ [][CacheNext]_vars

WorkersInit == CacheStart(NWorkers)

WorkersNext ==
    \/ \E t \in CacheTexts : Call(t)
    \/ BertLookup
    \/ BertCompute
    \/ BertStore
    \/ RegexLookup
    \/ RegexCompute
    \/ RegexStore
    \/ BuildWindows

SpecWorkers == WorkersInit /\ [][WorkersNext]_vars

----------------------------------------------------------------------------
(* Specification of preprocess: one call on up to MaxDocs documents, for   *)
(* every split, both values of dynamic_preprocessing and both values of    *)
(* the preprocessor's training flag at entry.                              *)

Documents == {"ok", "large", "unmatched"}

DataLists == UNION {[1..n -> Documents] : n \in 0..MaxDocs}

Splits == {"train", "val"}

PreprocessInit ==
    /\ extractor \in [dynamic_preprocessing : BOOLEAN, training : BOOLEAN]
    /\ call = None
    /\ e_pc = "idle"
    /\ BatchesIdle
    /\ SIdle
    /\ WIdle
    /\ FIdle
    /\ TIdle
    /\ CacheIdle

PreprocessNext ==
    \/ \E data \in DataLists, split \in Splits : Preprocess(data, split)
    \/ PreprocessDynamic
    \/ PreprocessEval
    \/ PreprocessDocument
    \/ PreprocessRaise
    \/ PreprocessRestore

SpecPreprocess == PreprocessInit /\ [][PreprocessNext]_vars

----------------------------------------------------------------------------
(* Specification of the mini-batch splitter: every list of 1 to MaxSamples *)
(* samples of the shapes below, the threshold (a real in the source, of    *)
(* which only the integer part matters against a product of integers)     *)
(* scaled down to the sizes of the samples.                                *)

\* tokens_mask of a sample, as the lengths of its rows.
SampleShapes == {<<1>>, <<2>>, <<3>>, <<1, 1>>, <<3, 1>>, <<2, 3>>}

SampleLists == UNION {[1..n -> SampleShapes] : n \in 1..MaxSamples}

Thresholds == {2, 4, 6, 12}

BatchesInit ==
    /\ samples \in SampleLists
    /\ threshold \in Thresholds
    /\ mini_batches = <<>>
    /\ e_pc = "split"
    /\ PreprocessIdle
    /\ SIdle
    /\ WIdle
    /\ FIdle
    /\ TIdle
    /\ CacheIdle

BatchesNext == SplitIntoMiniBatches

SpecBatches == BatchesInit /\ [][BatchesNext]_vars

----------------------------------------------------------------------------
(* Claims about the slicer *)

\* Indices (1-based) of the tokens that lie in or cross [b, e).
Qualifying(tokens, b, e) ==
    {k \in 1..Len(tokens.text) : tokens.end[k] > b /\ tokens.begin[k] < e}

NMarkersBefore == IF s_insert_before # None THEN 1 ELSE 0

NMarkersAfter == IF s_insert_after # None THEN 1 ELSE 0

\* C3: for sorted, non-empty, non-overlapping tokens and begin <= end, the slice
\* holds, in stream order and each once, exactly the tokens with end > begin and
\* begin < end-of-range (straddling tokens included once); the requested markers
\* sit at positions begin and end, and are all there is when no token qualifies.
C3_SliceExact ==
    s_pc = "return" =>
        LET Q == Qualifying(s_tokens, s_begin, s_end)
            n == Cardinality(Q)
            off == NMarkersBefore
        IN  /\ Len(s_result.text) = off + n + NMarkersAfter
            /\ Len(s_result.begin) = Len(s_result.text)
            /\ Len(s_result.end) = Len(s_result.text)
            /\ \A j \in 1..n :
                  /\ s_result.begin[off + j] = s_tokens.begin[NthOf(Q, j)]
                  /\ s_result.end[off + j] = s_tokens.end[NthOf(Q, j)]
                  /\ s_result.text[off + j] = s_tokens.text[NthOf(Q, j)]
            /\ s_insert_before # None =>
                  /\ s_result.begin[1] = s_begin
                  /\ s_result.end[1] = s_begin
                  /\ s_result.text[1] = CLS
            /\ s_insert_after # None =>
                  /\ s_result.begin[off + n + 1] = s_end
                  /\ s_result.end[off + n + 1] = s_end
                  /\ s_result.text[off + n + 1] = SEP

\* A slice with both markers whose range cuts a token at each boundary, both
\* straddling tokens being returned.
C3_Witness ==
    /\ s_pc = "return"
    /\ s_insert_before # None /\ s_insert_after # None
    /\ Len(s_result.text) = 4
    /\ s_result.begin[2] < s_begin /\ s_result.end[2] > s_begin
    /\ s_result.begin[3] < s_end /\ s_result.end[3] > s_end

\* C20: slicing the result of a marker-free slice again with the same range
\* returns the same begin, end and text arrays (after SliceAgain, s_tokens is
\* the first result and s_result the second).
C20_Idempotent ==
    (s_pc = "resliced" /\ s_insert_before = None /\ s_insert_after = None) =>
        /\ s_result.begin = s_tokens.begin
        /\ s_result.end = s_tokens.end
        /\ s_result.text = s_tokens.text

\* A marker-free slice that cut a token at each boundary, sliced again.
C20_Witness ==
    /\ s_pc = "resliced"
    /\ s_insert_before = None /\ s_insert_after = None
    /\ Len(s_result.text) >= 2
    /\ s_result.begin[1] < s_begin /\ s_result.end[1] > s_begin
    /\ s_result.begin[Len(s_result.text)] < s_end
    /\ s_result.end[Len(s_result.text)] > s_end

----------------------------------------------------------------------------
(* Claims about the sentence window builder *)

\* C1: under equal-split and max-split every emitted window (sample in split
\* mode, token row in running mode) has at most max_tokens subword tokens, the
\* boundary markers counted.
C1_Budget ==
    self.large_sentences \in {"equal-split", "max-split"} =>
        \A k \in 1..Len(results) :
            \A r \in 1..Len(results[k].bert_tokens_text) :
                Len(results[k].bert_tokens_text[r]) <= self.max_tokens

\* A finished max-split call that cut a sentence and emitted a full window.
C1_Witness ==
    /\ pc = "return"
    /\ self.large_sentences = "max-split"
    /\ self.bos_token # None
    /\ warned
    /\ \E k \in 1..Len(results) :
          \E r \in 1..Len(results[k].bert_tokens_text) :
              Len(results[k].bert_tokens_text[r]) = self.max_tokens

\* The characters of the document that are not whitespace (0-based offsets).
NonSpaceChars == {i \in 0..(Len(text) - 1) : ~IsSpace(text[i + 1])}

WindowsHolding(i) ==
    {k \in 1..Len(results) : results[k].begin <= i /\ i < results[k].end}

\* C2: in split mode, when the call returns, the windows' character ranges are
\* pairwise disjoint and every non-whitespace character lies in exactly one.
C2_Coverage ==
    (pc = "return" /\ self.split_into_multiple_samples) =>
        /\ \A k1, k2 \in 1..Len(results) :
              k1 < k2 => (results[k1].end <= results[k2].begin
                          \/ results[k2].end <= results[k1].begin)
        /\ \A i \in NonSpaceChars : Cardinality(WindowsHolding(i)) = 1

\* The number of subword tokens of each emitted window, in emission order.
WindowSizes ==
    IF self.split_into_multiple_samples
    THEN [k \in 1..Len(results) |-> Len(results[k].bert_tokens_text[1])]
    ELSE [r \in 1..Len(results[1].bert_tokens_text) |->
              Len(results[1].bert_tokens_text[r])]

NMarkers == Len(self.bos_token) + Len(self.eos_token)

InScenarioA ==
    /\ text = ScenarioAText
    /\ self.max_tokens = 512 /\ self.min_tokens = 128 /\ ~self.training

InScenarioB ==
    /\ text = ScenarioBText
    /\ self.max_tokens = 500 /\ self.min_tokens = 128
    /\ self.large_sentences = "equal-split"

\* C8: equal-split, max_tokens = 500, min_tokens = 128: one sentence of 1000
\* subword tokens is emitted as exactly 2 windows, each of at most 500 and at
\* least 128 tokens.
C8_EqualSplitInTwo ==
    (InScenarioB /\ pc = "return") =>
        /\ Len(WindowSizes) = 2
        /\ \A k \in 1..Len(WindowSizes) :
              WindowSizes[k] <= 500 /\ WindowSizes[k] >= 128

\* The character range of the window being built and its subword tokens, the
\* tokenizer's markers counted.
WindowRange == <<IF begin = None THEN Head(sentences_bounds)[1] ELSE begin[1],
                 Head(sentences_bounds)[2]>>

WindowTokens ==
    Cardinality(Qualifying(full_doc_bert_tokens, WindowRange[1], WindowRange[2]))
    + NMarkers

BuildsWindow ==
    /\ pc = "loop"
    /\ sentences_bounds # <<>>
    /\ \E i \in (WindowRange[1] + 1)..WindowRange[2] : ~IsSpace(text[i])

\* C11: under large_sentences = "raise", an iteration whose window has more than
\* max_tokens subword tokens ends the call with a LargeSentenceException that
\* carries the (quoted) text of the window's range, emits nothing and leaves no
\* piece of the range in the queue; no emitted window is over budget.
C11_RaisePolicy ==
    [][self.large_sentences = "raise" =>
          /\ (BuildsWindow /\ WindowTokens > self.max_tokens) =>
                /\ pc' = "raised"
                /\ raised' = Exception("LargeSentenceException",
                       <<"'">> \o [i \in 1..(WindowRange[2] - WindowRange[1]) |->
                                      text[WindowRange[1] + i]] \o <<"'">>)
                /\ results' = results
                /\ sentences_bounds' = Tail(sentences_bounds)
          /\ \A k \in 1..Len(WindowSizes') : WindowSizes'[k] <= self.max_tokens
      ]_vars

\* A call under "raise" that failed on a four-token sentence that follows a
\* blank range, with nothing emitted.
C11_Witness ==
    /\ pc = "raised"
    /\ self.large_sentences = "raise"
    /\ self.split_into_multiple_samples
    /\ raised = Exception("LargeSentenceException",
                          <<"'", "N", "B", "I", "I", "I", "'">>)
    /\ results = <<>>

\* C24: under the policies "equal-split" and "max-split" the windowing loop
\* raises nothing: every range over max_tokens is cut in two.
C24_SplitNeverRaises ==
    self.large_sentences # "raise" => (pc # "raised" /\ raised = None)

\* C16: for a non-empty text, no window emitted in split mode has an empty
\* word list, and the sample returned in running mode has words.
C16_NoEmptyWindow ==
    Len(text) > 0 =>
        IF self.split_into_multiple_samples
        THEN \A k \in 1..Len(results) : results[k].words_text # <<>>
        ELSE pc = "return" => results[1].words_text # <<>>

\* A window has just been closed and emitted, no split having taken place:
\* the head of the queue is the candidate that followed it.
JustClosed ==
    /\ pc = "loop" /\ begin = None /\ ~warned
    /\ WindowSizes # <<>>
    /\ sentences_bounds # <<>>

LastWindowSize == WindowSizes[Len(WindowSizes)]

\* The subword tokens of the candidate at the head of the queue.
NextCandidateTokens ==
    Cardinality(Qualifying(full_doc_bert_tokens, Head(sentences_bounds)[1],
                           Head(sentences_bounds)[2]))

\* C19: not training, a window of fewer than max_tokens tokens is not closed
\* while a candidate remains with which it would still be within max_tokens,
\* the markers counted once; and the merge draw has no effect.
C19_Greedy ==
    ~self.training =>
        /\ JustClosed =>
              ~(/\ LastWindowSize < self.max_tokens
                /\ LastWindowSize + NextCandidateTokens <= self.max_tokens)
        /\ (pc = "loop" /\ sentences_bounds # <<>>) => (joins(TRUE) <=> joins(FALSE))

----------------------------------------------------------------------------
(* Claims about forward and decode on one document                         *)

\* The sample given to forward, its words, and the sample forward returned.
TheSample == window[1].sample

TheWords == [begin |-> window[1].words_begin, end |-> window[1].words_end]

Returned == f_pc \in {"decode", "done"}

\* The begin offset of the window in the document.
WindowBegin == IF TheSample.begin # None THEN TheSample.begin[1] ELSE 0

Range(seq) == {seq[i] : i \in 1..Len(seq)}

\* (entity, fragment) positions of the sample, 1-based.
FragmentRefs ==
    {r \in (1..Len(TheSample.entities)) \X (1..2) :
        r[2] <= Len(TheSample.entities[r[1]].fragments)}

FragmentAt(r) == TheSample.entities[r[1]].fragments[r[2]]

\* The words (1-based) a fragment of the sample shares a character with.
WordsOf(r) ==
    {w \in 1..Len(TheWords.begin) :
        Max2(FragmentAt(r).begin, TheWords.begin[w])
            < Min2(FragmentAt(r).end, TheWords.end[w])}

Matched(r) == WordsOf(r) # {}

\* The label of a fragment: its own "label", the entity's when it has none.
OwnLabel(r) ==
    IF FragmentAt(r).label # None THEN FragmentAt(r).label[1].str
    ELSE TheSample.entities[r[1]].label.str

\* (begin, end, label) of a fragment.
Triple(r) == <<FragmentAt(r).begin, FragmentAt(r).end, OwnLabel(r)>>

\* The label a fragment is recorded with in the window.
RecordedLabel(r) ==
    IF self.fragment_label_is_entity_label
    THEN TheSample.entities[r[1]].label.str
    ELSE FragmentAt(r).label[1].str

\* The slots of the returned fragment arrays (the placeholder row is masked).
Slots == {k \in 1..Len(prep[1].fragments_mask) : prep[1].fragments_mask[k]}

\* Slot k holds the word range of fragment r: its first and last word.
SlotSpans(k, r) ==
    /\ prep[1].fragments_begin[k] = SetMin(WordsOf(r)) - 1
    /\ prep[1].fragments_end[k] = SetMax(WordsOf(r)) - 1

\* Slot k holds the word range and the recorded label of fragment r.
SlotHolds(k, r) ==
    /\ SlotSpans(k, r)
    /\ FragmentLabelValues[prep[1].fragments_label[k] + 1] = RecordedLabel(r)

\* Slot k is referenced by, and references, the entity of fragment r.
SlotLinks(k, r) ==
    /\ (r[1] - 1) \in Range(prep[1].fragments_entities[k])
    /\ (k - 1) \in Range(prep[1].entities_fragments[r[1]])

\* The document has one entity with one fragment, which spans exactly one word.
OneSingleWordFragment ==
    /\ Len(TheSample.entities) = 1
    /\ Len(TheSample.entities[1].fragments) = 1
    /\ \E w \in 1..Len(TheWords.begin) :
          /\ FragmentAt(<<1, 1>>).begin = TheWords.begin[w]
          /\ FragmentAt(<<1, 1>>).end = TheWords.end[w]

DecodedAs(label) ==
    /\ Len(docs) = 1
    /\ Len(docs[1].entities) = 1
    /\ Len(docs[1].entities[1].fragments) = 1
    /\ LET f == docs[1].entities[1].fragments[1]
           original == doc.entities[1].fragments[1]
       IN  /\ f.begin = original.begin
           /\ f.end = original.end
           /\ f.label = label

\* C4 as stated: for a document with one entity that has one single-word
\* fragment, forward then decode (grouping by document) of the window's own
\* fragment gives back the fragment's character begin, end and its label.
C4_RoundTrip ==
    (OneSingleWordFragment /\ group_by_document) =>
        /\ f_pc # "raised"
        /\ f_pc = "done" => DecodedAs(OwnLabel(<<1, 1>>))

\* C4 amended: the decoded label is the label the fragment is recorded with:
\* the entity's label when fragment_label_is_entity_label is set, the fragment's
\* own label otherwise; begin and end are the original character offsets.
C4_RoundTripRecorded ==
    (OneSingleWordFragment /\ group_by_document) =>
        /\ f_pc # "raised"
        /\ f_pc = "done" => DecodedAs(RecordedLabel(<<1, 1>>))

\* A round trip in split mode, the window starting inside the document, of a
\* fragment whose own label is not its entity's.
C4_Witness ==
    /\ f_pc = "done" /\ OneSingleWordFragment /\ group_by_document
    /\ WindowBegin > 0
    /\ self.fragment_label_is_entity_label
    /\ OwnLabel(<<1, 1>>) # RecordedLabel(<<1, 1>>)
    /\ docs[1].entities[1].fragments[1].begin = WindowBegin + 1

\* Two fragments of two different entities with the identical (begin, end, label).
SharedPairs ==
    {pr \in FragmentRefs \X FragmentRefs :
        pr[1][1] < pr[2][1] /\ Triple(pr[1]) = Triple(pr[2])}

SharesOneSlot(pr) ==
    /\ Cardinality({k \in Slots : SlotLinks(k, pr[1]) /\ SlotLinks(k, pr[2])
                                  /\ SlotHolds(k, pr[1])}) = 1
    /\ Cardinality(Slots) = Cardinality({Triple(r) : r \in {q \in FragmentRefs : Matched(q)}})

\* C5 as stated: two entities of one window that each have a fragment with the
\* identical (begin, end, label) produce exactly one slot of the fragment
\* arrays; the slot lists both entities and both entities list the slot.
C5_SharedSlot ==
    Returned => \A pr \in SharedPairs : SharesOneSlot(pr)

\* C5 amended: the same, for a shared fragment that maps onto at least one word
\* (a fragment that maps onto no word has no slot).
C5_SharedMatchedSlot ==
    Returned => \A pr \in {q \in SharedPairs : Matched(q[1])} : SharesOneSlot(pr)

\* Two entities share a fragment, one of them has a second fragment, and the
\* sort has put the shared one first although it was met last.
C5_Witness ==
    /\ Returned
    /\ Cardinality(Slots) = 2
    /\ Len(TheSample.entities[1].fragments) = 2
    /\ <<<<1, 2>>, <<2, 1>>>> \in SharedPairs
    /\ SlotLinks(1, <<2, 1>>) /\ SlotHolds(1, <<2, 1>>)
    /\ prep[1].fragments_entities[1] = <<0, 1>>

Unmatched == {r \in FragmentRefs : ~Matched(r)}

FragmentId(r) == <<TheSample.entities[r[1]].entity_id, r[2] - 1>>

\* C9: a fragment that maps onto no word is handled by empty_entities. Under
\* "drop" forward raises nothing, records a warning, and the fragment is in no
\* slot and in no entity's list while every other fragment is kept; under
\* "raise" forward fails with an error that names the id of such a fragment.
C9_EmptyPolicy ==
    (f_pc # "forward" /\ Unmatched # {}) =>
        IF self.empty_entities = "drop"
        THEN /\ Returned /\ f_raised = None /\ f_warned
             /\ Cardinality(Slots) =
                  Cardinality({Triple(r) : r \in FragmentRefs \ Unmatched})
             /\ \A e \in 1..Len(TheSample.entities) :
                   Len(prep[1].entities_fragments[e]) =
                      Cardinality({r \in FragmentRefs \ Unmatched : r[1] = e})
             /\ \A r \in FragmentRefs \ Unmatched :
                   \E k \in Slots : SlotLinks(k, r) /\ SlotSpans(k, r)
             /\ \A k \in Slots :
                   \E r \in FragmentRefs \ Unmatched : SlotLinks(k, r) /\ SlotSpans(k, r)
        ELSE /\ f_pc = "raised"
             /\ \E r \in Unmatched :
                   f_raised = Exception("Exception", <<TheSample.doc_id, FragmentId(r)>>)

\* An entity with a zero-length fragment and a fragment on a word, under
\* "drop": the window keeps one slot and the warning is recorded.
C9_Witness ==
    /\ Returned /\ f_warned
    /\ self.empty_entities = "drop"
    /\ Len(TheSample.entities) = 1
    /\ Len(TheSample.entities[1].fragments) = 2
    /\ FragmentAt(<<1, 1>>).begin = FragmentAt(<<1, 1>>).end
    /\ Matched(<<1, 2>>)
    /\ Cardinality(Slots) = 1
    /\ prep[1].entities_fragments[1] = <<0>>

ListLabelled ==
    {e \in 1..Len(TheSample.entities) : TheSample.entities[e].label.is_list}

\* The labels of entity e as a set of strings.
LabelSet(e) ==
    LET label == TheSample.entities[e].label
    IN  IF label.is_list THEN {label.items[i].str : i \in 1..Len(label.items)}
        ELSE {label.str}

MatchedRefs(e) ==
    SelectSeq([j \in 1..Len(TheSample.entities[e].fragments) |-> <<e, j>>], Matched)

\* The two cross-reference arrays of the returned sample list each other, and
\* every index of entities_fragments is a slot of the fragment arrays.
CrossReferenced ==
    /\ \A e \in 1..Len(TheSample.entities) :
          /\ \A k \in Slots :
                (k - 1) \in Range(prep[1].entities_fragments[e])
                    <=> (e - 1) \in Range(prep[1].fragments_entities[k])
          /\ \A i \in Range(prep[1].entities_fragments[e]) : (i + 1) \in Slots
    /\ \A k \in Slots :
          \A i \in Range(prep[1].fragments_entities[k]) :
              (i + 1) \in 1..Len(TheSample.entities)

\* C23: in the returned sample the cross-reference arrays agree, every index
\* in entities_fragments is a valid slot, and the j-th index of an entity is
\* the slot that holds the word range and the label of the entity's j-th
\* fragment that maps onto a word.
C23_CrossReferences ==
    Returned =>
        /\ CrossReferenced
        /\ \A e \in 1..Len(TheSample.entities) :
              /\ Len(prep[1].entities_fragments[e]) = Len(MatchedRefs(e))
              /\ \A j \in 1..Len(MatchedRefs(e)) :
                    SlotHolds(prep[1].entities_fragments[e][j] + 1, MatchedRefs(e)[j])

\* The slot that the entity of a matched fragment r lists for r.
SlotOf(r) ==
    LET j == CHOOSE i \in 1..Len(MatchedRefs(r[1])) : MatchedRefs(r[1])[i] = r
    IN  prep[1].entities_fragments[r[1]][j] + 1

\* Matched fragments of two different entities that were given one slot.
MergedPairs ==
    {pr \in {q \in FragmentRefs : Matched(q)} \X {q \in FragmentRefs : Matched(q)} :
        pr[1][1] < pr[2][1] /\ SlotOf(pr[1]) = SlotOf(pr[2])}

\* C25: whenever two entities share one slot of the returned fragment arrays,
\* the slot's label is the label that the fragment of each of the two would
\* have been recorded with: the entity's label when
\* fragment_label_is_entity_label is set, the fragment's own label otherwise.
C25_MergedSameLabel ==
    Returned =>
        \A pr \in MergedPairs :
            /\ FragmentLabelValues[prep[1].fragments_label[SlotOf(pr[1])] + 1]
                  = RecordedLabel(pr[1])
            /\ RecordedLabel(pr[1]) = RecordedLabel(pr[2])

\* The pseudo-labels "key:value" of the attributes of entity e.
PseudoLabels(e) ==
    LET at == TheSample.entities[e].attributes
    IN  {at[i].label \o ":" \o at[i].value : i \in 1..Len(at)}

\* C22: with convert_attributes_to_labels on, a returned sample was built in
\* multi-label mode and the row of every entity is true exactly on the
\* vocabulary positions of the entity's own labels and of the pseudo-labels of
\* its attributes.
C22_AttributeLabels ==
    (Returned /\ self.convert_attributes_to_labels) =>
        /\ self.multi_label
        /\ \A e \in 1..Len(TheSample.entities) :
              \A k \in 1..Len(EntityLabelValues) :
                  prep[1].entities_label[e][k] <=>
                      EntityLabelValues[k] \in LabelSet(e) \cup PseudoLabels(e)

----------------------------------------------------------------------------
(* Claims about the tag target                                             *)

\* The state a fragment assigns to word w (0-based) on its own.
StateOf(b, e, w) ==
    IF w < b \/ w > e THEN O
    ELSE IF b = e THEN U
    ELSE IF w = b THEN B
    ELSE IF w = e THEN L
    ELSE I

\* The states the unmasked fragments of label l assign to word w.
StatesAt(l, w) ==
    {StateOf(batch.fragments_begin[k], batch.fragments_end[k], w) :
        k \in {j \in 1..Len(batch.fragments_begin) :
                  batch.fragments_mask[j] /\ batch.fragments_label[j] = l}}

\* C6: the state of each (label, word) of the tag target is the highest, under
\* Outside < Inside < Begin < Last < Unit, of the states that the unmasked
\* fragments of that label assign to the word, whatever the fragments' order.
C6_HighestState ==
    t_pc = "return" =>
        \A l \in TagLabels : \A w \in 0..(MaxTagWords - 1) :
            tags[l + 1][w + 1] = SetMax(StatesAt(l, w) \cup {O})

----------------------------------------------------------------------------
(* Claims about decode                                                     *)

\* Window k is of another document than the window before it.
OtherDocument(k) ==
    k = 1 \/ prep[k].original_doc.doc_id # prep[k - 1].original_doc.doc_id

\* The number of the record that window k belongs to.
RecordOf(k) == Cardinality({j \in 1..k : OtherDocument(j)})

\* C10: grouping by document, the consecutive windows of one document go to one
\* record, its entities in window order, and a window of another document than
\* the window before starts a new record: no record holds entities of two
\* documents.
C10_GroupByDocument ==
    (f_pc = "done" /\ group_by_document) =>
        /\ Len(docs) = RecordOf(Len(prep))
        /\ \A r \in 1..Len(docs) :
              LET found == docs[r].entities
              IN  /\ Len(found) =
                        Cardinality({c \in (1..Len(prep)) \X (1..MaxPredicted) :
                                        RecordOf(c[1]) = r
                                        /\ c[2] <= Len(predictions[c[1]])})
                  /\ \A i \in 1..Len(found) : RecordOf(found[i].confidence[1]) = r
                  /\ \A i, j \in 1..Len(found) :
                        i < j =>
                            \/ found[i].confidence[1] < found[j].confidence[1]
                            \/ /\ found[i].confidence[1] = found[j].confidence[1]
                               /\ found[i].confidence[2] < found[j].confidence[2]

RECURSIVE Concat(_)
Concat(seqs) == IF seqs = <<>> THEN <<>> ELSE Head(seqs) \o Concat(Tail(seqs))

\* C14: decode is a projection: the entities of all records, in order, are the
\* predicted entities of all windows, in window order and in prediction order
\* within a window, each with one fragment per predicted fragment on the
\* predicted words; identical and overlapping predictions are all kept.
C14_Projection ==
    f_pc = "done" =>
        LET out == Concat([r \in 1..Len(docs) |-> docs[r].entities])
            pred == Concat(predictions)
        IN  /\ Len(out) = Len(pred)
            /\ \A i \in 1..Len(out) :
                  /\ out[i].confidence = pred[i].confidence
                  /\ out[i].label = <<EntityLabelValues[pred[i].label + 1]>>
                  /\ Len(out[i].fragments) = Len(pred[i].fragments)
                  /\ \A j \in 1..Len(out[i].fragments) :
                        LET f == out[i].fragments[j]
                            g == pred[i].fragments[j]
                            w == prep[pred[i].confidence[1]]
                        IN  /\ f.end - f.begin = w.words_end[g.end + 1]
                                                   - w.words_begin[g.begin + 1]
                            /\ f.label = FragmentLabelValues[g.label + 1]

\* Two windows of one whole document grouped in one record: the three
\* predictions of the first (two identical, one overlapping them) and the
\* prediction of the second, identical to the first, are all in the record.
C14_Witness ==
    /\ f_pc = "done" /\ group_by_document
    /\ ~self.split_into_multiple_samples
    /\ Len(prep) = 2 /\ Len(predictions[1]) = 3 /\ Len(predictions[2]) = 1
    /\ Len(docs) = 1
    /\ Len(docs[1].entities) = 4
    /\ docs[1].entities[1].fragments = docs[1].entities[2].fragments
    /\ docs[1].entities[1].fragments = docs[1].entities[4].fragments
    /\ Len(docs[1].entities[3].fragments) = 2

\* The begin offset of window k in its document: the "begin" of the sample when
\* it is a slice, 0 when the sample is the document itself.
WindowBeginOf(k) ==
    IF prep[k].original_sample.begin # None
    THEN prep[k].original_sample.begin[1]
    ELSE 0

\* Every decoded fragment of every record: begin and end are the words' offsets
\* plus Offset(k), k the fragment's window, and the fragment's text is
\* Text(k) between them.
FragmentsAt(Offset(_), Text(_)) ==
    \A r \in 1..Len(docs) :
        \A i \in 1..Len(docs[r].entities) :
            LET k == docs[r].entities[i].confidence[1]
                pred == predictions[k][docs[r].entities[i].confidence[2]]
            IN  \A j \in 1..Len(pred.fragments) :
                    LET f == docs[r].entities[i].fragments[j]
                        span == pred.fragments[j]
                    IN  /\ f.begin = Offset(k) + prep[k].words_begin[span.begin + 1]
                        /\ f.end = Offset(k) + prep[k].words_end[span.end + 1]
                        /\ f.text = PySlice(Text(k), f.begin, f.end)

DocumentText(k) == prep[k].original_doc.text

RecordOffset(k) == IF group_by_document THEN WindowBeginOf(k) ELSE 0

RecordText(k) ==
    IF group_by_document THEN DocumentText(k) ELSE prep[k].original_sample.text

----------------------------------------------------------------------------
(* Claims about the tokenization caches                                    *)

NoPass == \A w \in DOMAIN threads : threads[w].pc = "idle"

\* C17 as stated: between the passes of one thread, the key set of each of the
\* two caches is the set of texts passed in training mode since the last
\* empty_cache.
C17_CacheKeys ==
    NoPass =>
        /\ DOMAIN bert_tokenizer_cache = trained_texts
        /\ DOMAIN regex_tokenizer_cache = trained_texts

\* C17 amended: the same for the cache of each tokenizer that is configured,
\* each key holding the tokenization of its own text; the cache of a
\* tokenizer that is not configured stays empty.
C17_ConfiguredCacheKeys ==
    NoPass =>
        /\ DOMAIN bert_tokenizer_cache =
              IF module.tokenizer THEN trained_texts ELSE {}
        /\ DOMAIN regex_tokenizer_cache =
              IF module.word_regex THEN trained_texts ELSE {}
        /\ \A t \in DOMAIN bert_tokenizer_cache :
              bert_tokenizer_cache[t] = huggingface_tokenize(t)
        /\ \A t \in DOMAIN regex_tokenizer_cache :
              regex_tokenizer_cache[t] = regex_tokenize(t)

\* After a training pass of "B" and of "BI", then passes out of training mode,
\* the caches hold the two texts and the preprocessor is not training.
C17_Witness ==
    /\ NoPass
    /\ ~module.training
    /\ module.tokenizer /\ module.word_regex
    /\ trained_texts = {<<"B">>, <<"B", "I">>}
    /\ DOMAIN bert_tokenizer_cache = trained_texts

\* The threads that are executing the subword (the word) tokenization of t.
BertComputing(t) ==
    {w \in DOMAIN threads : threads[w].pc = "bert_compute" /\ threads[w].text = t}

RegexComputing(t) ==
    {w \in DOMAIN threads : threads[w].pc = "regex_compute" /\ threads[w].text = t}

\* C18: threads sharing one preprocessor in training mode: for each text, at
\* most one thread at a time is executing a tokenization of that text.
C18_ComputeOnce ==
    module.training =>
        \A t \in CacheTexts :
            /\ Cardinality(BertComputing(t)) <= 1
            /\ Cardinality(RegexComputing(t)) <= 1

----------------------------------------------------------------------------
(* Claims about InformationExtractor                                       *)

\* C26: when preprocess has ended, by a return or by an exception of the
\* preprocessor, the preprocessor's training flag is what it was at entry.
C26_TrainingRestored ==
    e_pc \in {"returned", "raised"} => extractor.training = call.entry

\* The samples (0-based indices) of a mini-batch.
SamplesOf(b) == {mini_batches[b][i] : i \in 1..Len(mini_batches[b])}

\* sum of the sequence counts of a mini-batch.
RECURSIVE SumOfSequences(_)
SumOfSequences(S) ==
    IF S = {} THEN 0
    ELSE LET i == CHOOSE x \in S : TRUE
         IN  Len(samples[i + 1]) + SumOfSequences(S \ {i})

\* The largest sequence length among the samples of a mini-batch.
LargestSequence(S) == SetMax(UNION {Range(samples[i + 1]) : i \in S})

\* Every sample is in exactly one mini-batch, once.
Partitioned ==
    /\ \A i \in 0..(Len(samples) - 1) :
          Cardinality({b \in 1..Len(mini_batches) : i \in SamplesOf(b)}) = 1
    /\ \A b \in 1..Len(mini_batches) :
          /\ Cardinality(SamplesOf(b)) = Len(mini_batches[b])
          /\ SamplesOf(b) \subseteq 0..(Len(samples) - 1)

\* C27: every yielded mini-batch of more than one sample has (sum of sequence
\* counts) x (largest sequence length) <= threshold, and every input sample
\* is in exactly one mini-batch.
C27_FitsMemory ==
    e_pc = "yielded" =>
        /\ \A b \in 1..Len(mini_batches) :
              Len(mini_batches[b]) > 1 =>
                  SumOfSequences(SamplesOf(b)) * LargestSequence(SamplesOf(b))
                      <= threshold
        /\ Partitioned

====
